---- MODULE Spec2Model ----
(***************************************************************************)
(* Insights query engine of tianji: the warehouse SQL builders (long table *)
(* and wide table), the application-list cache, the connection pools and   *)
(* the request handlers insightsWarehouse / insightsWideTableWarehouse;    *)
(* the ChartRender component that issues the queries and draws the series; *)
(* the AI-gateway logs endpoint with its cursor paginator; the events     *)
(* listing dispatch queryWarehouseEvents; executeQuery with its dialect    *)
(* translation; the AI-gateway create / update / delete mutations and the  *)
(* gateway-info cache.                                                     *)
(*                                                                         *)
(* SQL fragments are modelled by their meaning: a predicate is a record    *)
(* that EvalPred evaluates on a row, an aggregate is a record naming the   *)
(* aggregate function and its output alias.                                *)
(***************************************************************************)
EXTENDS Integers, Sequences, FiniteSets, TLC

VARIABLES
    applicationsJson,   \* env.insights.warehouse.applicationsJson (decoded JSON)
    enable,             \* env.insights.warehouse.enable
    url,                \* env.insights.warehouse.url ("" when unset)
    applications,       \* module-level cache `applications` (null or parsed list)
    parseCount,         \* number of times the schema parse has returned a list
    returned,           \* set of lists getWarehouseApplications has returned
    pools,              \* log of createPool calls: the connection string of each pool
    registry,           \* getWarehouseConnection's pool registry: url -> pool id (0 = none)
    req,                \* the requests, one record per call of a handler
    built,              \* result of the last direct builder call
    lookup,             \* result of the last insightsWideTableWarehouseEvents call
    store,              \* useInsightsStore: current date range, unit and groups
    view,               \* the mounted ChartRender: what it rendered and queried
    aIGatewayLogs,      \* the rows of the AI-gateway log table
    pager,              \* a client paging through the logs endpoint
    dispatch,           \* the last queryWarehouseEvents call: the builder it took
    wire,               \* the last executeQuery call: what went to the driver
    aIGateway,          \* the rows of the AI-gateway table: id -> row
    gatewayInfoCache,   \* cached gateway info per (workspaceId, gatewayId)
    mutation            \* the AI-gateway mutation in progress

serverVars == <<applicationsJson, enable, url, applications, parseCount,
                returned, pools, registry, req, built, lookup, dispatch, wire>>
clientVars == <<store, view>>
gatewayVars == <<aIGatewayLogs, pager, aIGateway, gatewayInfoCache, mutation>>

vars == <<applicationsJson, enable, url, applications, parseCount, returned,
          pools, registry, req, built, lookup, store, view,
          aIGatewayLogs, pager, dispatch, wire, aIGateway, gatewayInfoCache,
          mutation>>

----------------------------------------------------------------------------
(* Bounds *)

NumReq == 2          \* requests made over the life of the process
MaxDays == 2         \* whole days a query window may span

(* Scaled-down calendar: 2 ms per second, 2 seconds per day. *)
MsPerSec == 2
SecPerDay == 2
MsPerDay == MsPerSec * SecPerDay

MaxTime == MaxDays * MsPerDay + 1    \* instants are 0..MaxTime (milliseconds)

MaxTextLen == 3      \* characters of a statement text
MaxMutations == 2    \* AI-gateway mutations called over the life of the process
MaxRows == 8         \* rows of the AI-gateway log table

Undefined == "undefined"

----------------------------------------------------------------------------
(* Configuration entries (raw JSON, before the schema's defaults) *)

RawApp(name, type, createdAtFieldType, dateBased, dbUrl) ==
    [name |-> name, type |-> type, tableName |-> "events",
     eventNameField |-> "event_name", createdAtField |-> "event_timestamp",
     createdAtFieldType |-> createdAtFieldType,
     dateBasedCreatedAtField |-> dateBased,
     paramsValueField |-> "event_param_value",
     paramsValueNumberField |-> IF dateBased = Undefined THEN Undefined
                                ELSE "event_param_number",
     paramsValueStringField |-> Undefined,
     paramsValueDateField |-> Undefined,
     distinctField |-> "session_id",
     databaseUrl |-> dbUrl]

AppTest   == RawApp("test", Undefined, Undefined, Undefined, "u1")
AppLongA  == RawApp("a", "longTable", "timestampMs", "event_date", "u1")
AppLongB  == RawApp("b", "longTable", "timestamp", Undefined, "u1")
AppWideA  == RawApp("a", "wideTable", "timestampMs", "event_date", "u1")
AppWideA2 == RawApp("a", "wideTable", "date", Undefined, "u2")
AppWideB  == RawApp("b", "wideTable", "datetime", Undefined, "u2")
(* An entry with the typed string and date parameter columns configured *)
AppLongT  == [RawApp("test", "longTable", "timestamp", Undefined, "u1")
                EXCEPT !.paramsValueStringField = "event_param_string",
                       !.paramsValueDateField = "event_param_date"]
(* Entries the schema rejects: no name, and a type outside the enum *)
AppNoName  == RawApp(Undefined, "longTable", "timestampMs", Undefined, "u1")
AppBadType == RawApp("a", "bigTable", "timestampMs", Undefined, "u1")

Urls == {"u1", "u2"}
InsightIds == {"a", "b", "test"}

dateTypeSchema == {"timestamp", "timestampMs", "date", "datetime"}

MYSQL_DATE_FORMATS ==
    [minute |-> "%Y-%m-%d %H:%i:00",
     hour   |-> "%Y-%m-%d %H:00:00",
     day    |-> "%Y-%m-%d",
     month  |-> "%Y-%m-01",
     year   |-> "%Y-01-01"]

(* warehouseInsightsApplicationSchema: the defaults zod applies on parse. *)
warehouseInsightsApplicationSchema(raw) ==
    [raw EXCEPT
        !.type = IF raw.type = Undefined THEN "longTable" ELSE raw.type,
        !.createdAtFieldType =
            IF raw.createdAtFieldType = Undefined THEN "timestampMs"
            ELSE raw.createdAtFieldType]

ParseApplications(json) ==
    [i \in DOMAIN json |-> warehouseInsightsApplicationSchema(json[i])]

(* What z.object({...}) demands of an entry: a string name, a type of the   *)
(* enum or none, a creation-field encoding of dateTypeSchema or none        *)
SchemaAccepts(raw) ==
    /\ raw.name # Undefined
    /\ raw.type \in {"longTable", "wideTable", Undefined}
    /\ raw.createdAtFieldType \in dateTypeSchema \cup {Undefined}

ApplicationConfigInvalid == "ApplicationConfigInvalid"

NullApplications == [isNull |-> TRUE, value |-> <<>>]

(* A cache test that also treats an empty list as missing *)
getWarehouseApplications_EmptyIsMissing(cache, json) ==
    IF cache.isNull \/ cache.value = <<>>
    THEN IF \A i \in DOMAIN json : SchemaAccepts(json[i])
         THEN [cache |-> [isNull |-> FALSE, value |-> ParseApplications(json)],
               result |-> ParseApplications(json), parsed |-> 1, err |-> ""]
         ELSE [cache |-> cache, result |-> <<>>, parsed |-> 0,
               err |-> ApplicationConfigInvalid]
    ELSE [cache |-> cache, result |-> cache.value, parsed |-> 0, err |-> ""]

(* A parse that caches the empty list when the configuration is rejected *)
getWarehouseApplications_CacheOnThrow(cache, json) ==
    IF cache.isNull
    THEN IF \A i \in DOMAIN json : SchemaAccepts(json[i])
         THEN [cache |-> [isNull |-> FALSE, value |-> ParseApplications(json)],
               result |-> ParseApplications(json), parsed |-> 1, err |-> ""]
         ELSE [cache |-> [isNull |-> FALSE, value |-> <<>>], result |-> <<>>,
               parsed |-> 0, err |-> ApplicationConfigInvalid]
    ELSE [cache |-> cache, result |-> cache.value, parsed |-> 0, err |-> ""]

(* getWarehouseApplications: parse on a null cache, else return the cache.  *)
(* An empty array is truthy in JavaScript, so an empty list stays cached.   *)
(* parse() throws on a rejected entry before the assignment to the cache:   *)
(* the cache stays null and the caller gets the error, no list.             *)
getWarehouseApplications(cache, json) ==
    IF cache.isNull
    THEN IF \A i \in DOMAIN json : SchemaAccepts(json[i])
         THEN [cache |-> [isNull |-> FALSE, value |-> ParseApplications(json)],
               result |-> ParseApplications(json), parsed |-> 1, err |-> ""]
         ELSE [cache |-> cache, result |-> <<>>, parsed |-> 0,
               err |-> ApplicationConfigInvalid]
    ELSE [cache |-> cache, result |-> cache.value, parsed |-> 0, err |-> ""]

----------------------------------------------------------------------------
(* Results of calls that may throw *)

Ok(v) == [err |-> "", val |-> v]
Throw(msg) == [err |-> msg, val |-> <<>>]

ApplicationNotFound == "Application not found"
InvalidDateUnit == "Invalid date unit"
UnsupportedOperator == "Unsupported operator"
WarehouseNotEnabled == "Warehouse is not enabled"

(* Array.prototype.find over the indices S that satisfy the callback: the  *)
(* first of them, 0 if there is none                                       *)
FindIndex(S) ==
    IF S = {} THEN 0 ELSE CHOOSE i \in S : \A j \in S : i <= j

----------------------------------------------------------------------------
(* dayjs on the scaled calendar (UTC) *)

(* dayjs(endAt).diff(startAt, 'day'): whole days, truncated toward zero *)
DayDiff(endAt, startAt) ==
    IF endAt >= startAt THEN (endAt - startAt) \div MsPerDay
    ELSE 0 - ((startAt - endAt) \div MsPerDay)

(* dayjs(t).startOf('day').format('YYYY-MM-DD') and                        *)
(* dayjs(t).endOf('day').format('YYYY-MM-DD'): the calendar day of t       *)
FormatDay(t) == t \div MsPerDay

(* dayjs(t).unix() and dayjs(t).utc().format('YYYY-MM-DD HH:mm:ss') *)
Unix(t) == t \div MsPerSec

(* The value a column of the given encoding stores for the instant t *)
Encode(t, type) ==
    CASE type = "timestamp" -> Unix(t)
      [] type = "date"      -> FormatDay(t)
      [] type = "datetime"  -> Unix(t)
      [] OTHER              -> t

----------------------------------------------------------------------------
(* Query model *)

AllEvent == "$all_event"

Metric(name, math) == [name |-> name, math |-> math]
Filter(name, type, operator, value) ==
    [name |-> name, type |-> type, operator |-> operator, value |-> value]
CustomGroup(operator, value) == [filterOperator |-> operator, filterValue |-> value]
(* The literal of a custom group: a number, a string or a list of strings. *)
(* `items` holds String(x) of the value, or of each element of a list.     *)
Num(n) == [kind |-> "number", items |-> <<ToString(n)>>, n |-> n]
Str(s) == [kind |-> "string", items |-> <<s>>, n |-> 0]
List(items) == [kind |-> "list", items |-> items, n |-> 0]
(* hasCustomGroups = FALSE models an absent (undefined) customGroups *)
Group(value, type, hasCustomGroups, customGroups) ==
    [value |-> value, type |-> type, hasCustomGroups |-> hasCustomGroups,
     customGroups |-> customGroups]
Time(startAt, endAt, unit) == [startAt |-> startAt, endAt |-> endAt, unit |-> unit]
Query(insightId, metrics, filters, groups, time) ==
    [insightId |-> insightId, metrics |-> metrics, filters |-> filters,
     groups |-> groups, time |-> time]

(* A source row: its instant, its event name and the value of field "p" *)
Row(t, eventName, p) == [t |-> t, eventName |-> eventName, p |-> p]

(* A returned series: its name, its group values by group key, its points *)
Point(date, value) == [date |-> date, value |-> value]
Series(name, dims, data) == [name |-> name, dims |-> dims, data |-> data]

----------------------------------------------------------------------------
(* SQL fragments, by meaning *)

PTrue == [op |-> "true"]                                   \* 1 = 1
PCmp(op, col, value) == [op |-> op, col |-> col, value |-> value]
PBetween(col, lo, hi) == [op |-> "between", col |-> col, lo |-> lo, hi |-> hi]
POr(args) == [op |-> "or", args |-> args]                  \* (a OR b OR ...)
PColumn(col) == [op |-> "column", col |-> col]             \* a bare column

NullSql == [fn |-> "null"]
Aggregate(fn, arg, alias) == [fn |-> fn, arg |-> arg, alias |-> alias]
DateExpr(fn, col, type, format) ==
    [fn |-> fn, col |-> col, type |-> type, format |-> format]
NoDate == DateExpr("none", "", "", "")

(* The value of a column of a row stored under application app *)
ColumnValue(row, col, app) ==
    CASE col = "createdAt" -> Encode(row.t, app.createdAtFieldType)
      [] col = "dateBased" -> FormatDay(row.t)
      [] col = "eventName" -> row.eventName
      [] OTHER             -> row.p

EvalAtom(pred, row, app) ==
    CASE pred.op = "true"    -> TRUE
      [] pred.op = "eq"      -> ColumnValue(row, pred.col, app) = pred.value
      [] pred.op = "neq"     -> ColumnValue(row, pred.col, app) # pred.value
      [] pred.op = "gt"      -> ColumnValue(row, pred.col, app) > pred.value
      [] pred.op = "lt"      -> ColumnValue(row, pred.col, app) < pred.value
      [] pred.op = "between" ->
            /\ pred.lo <= ColumnValue(row, pred.col, app)
            /\ ColumnValue(row, pred.col, app) <= pred.hi
      [] OTHER               -> FALSE

EvalPred(pred, row, app) ==
    IF pred.op = "or"
    THEN \E i \in DOMAIN pred.args : EvalAtom(pred.args[i], row, app)
    ELSE EvalAtom(pred, row, app)

(* where ${Prisma.join(whereQueryArr, ' AND ')}: the rows a WHERE selects *)
Selects(where, row, app) ==
    \A i \in DOMAIN where : EvalPred(where[i], row, app)

(* DATE_FORMAT(x, format) of the second `sec` of the calendar: the day for  *)
(* the day format, the second itself for the sub-day formats (the scaled    *)
(* calendar has one sub-day unit), the one month and year of the calendar   *)
(* for the coarser formats, and a constant text for any other format        *)
FormatLabel(format, sec) ==
    CASE format = "%Y-%m-%d"          -> sec \div SecPerDay
      [] format = "%Y-%m-%d %H:%i:00" -> sec
      [] format = "%Y-%m-%d %H:00:00" -> sec
      [] format = "%Y-%m-01"          -> 0
      [] format = "%Y-01-01"          -> 0
      [] OTHER                        -> 0 - 1

(* The bucket label the date expression of a statement gives a row: the     *)
(* date-only column holds the day, the creation column holds the instant in *)
(* its encoding (FROM_UNIXTIME reads seconds), converted to the session     *)
(* timezone (UTC here)                                                      *)
BucketOf(date, row, app) ==
    IF date.col = "dateBased"
    THEN FormatLabel(date.format, FormatDay(row.t) * SecPerDay)
    ELSE IF date.type = "date"
    THEN FormatLabel(date.format, FormatDay(row.t) * SecPerDay)
    ELSE FormatLabel(date.format, Unix(row.t))

----------------------------------------------------------------------------
(* Filter operator compiler (shared base class) *)

buildCommonFilterQueryOperator(type, operator, value, col) ==
    CASE type = "number" /\ operator = "equals"       -> Ok(PCmp("eq", col, value))
      [] type = "number" /\ operator = "not equals"   -> Ok(PCmp("neq", col, value))
      [] type = "number" /\ operator = "greater than" -> Ok(PCmp("gt", col, value))
      [] type = "number" /\ operator = "less than"    -> Ok(PCmp("lt", col, value))
      [] type = "string" /\ operator = "equals"       -> Ok(PCmp("eq", col, value))
      [] type = "string" /\ operator = "not equals"   -> Ok(PCmp("neq", col, value))
      [] operator = "in list"                         -> Ok(PCmp("in", col, value))
      [] OTHER -> Throw(UnsupportedOperator)

(* First error of a list of results, "" if none threw *)
FirstError(results) ==
    IF \E i \in DOMAIN results : results[i].err # ""
    THEN results[FindIndex({i \in DOMAIN results : results[i].err # ""})].err
    ELSE ""

----------------------------------------------------------------------------
(* The build output of a builder, as stored in the state *)

BuildOut(err, table, date, select, group, where) ==
    [err |-> err, table |-> table, date |-> date, select |-> select,
     group |-> group, where |-> where]
BuildFailed(err) == BuildOut(err, "", NoDate, <<>>, <<>>, <<>>)
NoBuild == BuildFailed("not built")

(* getDateQuery (both builders): the timezone-converted bucket expression *)
getDateQuery(col, unit, type) ==
    IF unit \notin DOMAIN MYSQL_DATE_FORMATS
    THEN Throw(InvalidDateUnit)
    ELSE Ok(DateExpr("DATE_FORMAT(CONVERT_TZ)", col,
                     IF type \in dateTypeSchema THEN type ELSE "timestampMs",
                     MYSQL_DATE_FORMATS[unit]))

(* MYSQL_DATE_FORMATS[unit] interpolated by Prisma.raw: an unknown key      *)
(* reads as undefined and prints as the text 'undefined'                    *)
RawFormat(unit) ==
    IF unit \in DOMAIN MYSQL_DATE_FORMATS THEN MYSQL_DATE_FORMATS[unit]
    ELSE Undefined

(* The bounds of the BETWEEN, shared text of both builders *)
DateRangeBounds(app, q, optimized) ==
    IF optimized
    THEN PBetween("dateBased", FormatDay(q.time.startAt), FormatDay(q.time.endAt))
    ELSE PBetween("createdAt",
                  Encode(q.time.startAt, app.createdAtFieldType),
                  Encode(q.time.endAt, app.createdAtFieldType))

----------------------------------------------------------------------------
(* WarehouseInsightsSqlBuilder: the long-table builder *)

Long_getApplication(apps, q) ==
    IF FindIndex({i \in DOMAIN apps : apps[i].name = q.insightId}) = 0
    THEN Throw(ApplicationNotFound)
    ELSE Ok(apps[FindIndex({i \in DOMAIN apps : apps[i].name = q.insightId})])

Long_enableDateBasedOptimizedEventTable(app, q) ==
    /\ app.dateBasedCreatedAtField # Undefined
    /\ DayDiff(q.time.endAt, q.time.startAt) >= 1

Long_buildOptimizedDateRangeQuery(app, q) ==
    DateRangeBounds(app, q, Long_enableDateBasedOptimizedEventTable(app, q))

Long_buildOptimizedDateQuerySql(app, q) ==
    IF Long_enableDateBasedOptimizedEventTable(app, q)
       /\ app.dateBasedCreatedAtField # Undefined
    THEN Ok(DateExpr("DATE_FORMAT", "dateBased", "date", RawFormat(q.time.unit)))
    ELSE getDateQuery("createdAt", q.time.unit, app.createdAtFieldType)

(* A selection that always reads the generic value column *)
Long_getValueField_Generic(app, type) == app.paramsValueField

Long_getValueField(app, type) ==
    CASE type = "number" ->
            IF app.paramsValueNumberField # Undefined
            THEN app.paramsValueNumberField ELSE app.paramsValueField
      [] type = "string" ->
            IF app.paramsValueStringField # Undefined
            THEN app.paramsValueStringField ELSE app.paramsValueField
      [] type = "date" ->
            IF app.paramsValueDateField # Undefined
            THEN app.paramsValueDateField ELSE app.paramsValueField
      [] OTHER -> app.paramsValueField

Long_buildFilterQueryOperator(app, type, operator, value) ==
    buildCommonFilterQueryOperator(type, operator, value,
                                   Long_getValueField(app, type))

Long_buildSelectQueryArr(app, q) ==
    [i \in DOMAIN q.metrics |->
        IF q.metrics[i].math = "events"
        THEN IF q.metrics[i].name = AllEvent
             THEN Aggregate("count", "1", AllEvent)
             ELSE Aggregate("sum case eventName", q.metrics[i].name,
                            q.metrics[i].name)
        ELSE NullSql]

(* Array.prototype.join(','), which is what String(list) is *)
RECURSIVE JoinComma(_)
JoinComma(items) ==
    IF items = <<>> THEN ""
    ELSE IF Len(items) = 1 THEN items[1]
    ELSE items[1] \o "," \o JoinComma(Tail(items))

(* `${cg.filterValue}`: the template literal applies String() to the value *)
TemplateString(v) == JoinComma(v.items)

(* The alias texts `%value` and `%value|operator|literal` *)
GroupAlias(g) == "%" \o g.value
CustomGroupAlias(g, cg) ==
    "%" \o g.value \o "|" \o cg.filterOperator \o "|"
        \o TemplateString(cg.filterValue)
GroupColumn(expr, alias) == [expr |-> expr, alias |-> alias]

RECURSIVE Flatten(_)
Flatten(lists) ==
    IF lists = <<>> THEN <<>> ELSE Head(lists) \o Flatten(Tail(lists))

Long_groupColumns(app, g) ==
    IF ~g.hasCustomGroups
    THEN <<Ok(GroupColumn(PColumn(Long_getValueField(app, g.type)),
                          GroupAlias(g)))>>
    ELSE [j \in DOMAIN g.customGroups |->
            LET cg == g.customGroups[j]
                f == Long_buildFilterQueryOperator(app, g.type,
                        cg.filterOperator, cg.filterValue)
            IN  IF f.err # "" THEN f
                ELSE Ok(GroupColumn(f.val, CustomGroupAlias(g, cg)))]

Long_buildGroupSelectQueryArr(app, q) ==
    Flatten([i \in DOMAIN q.groups |-> Long_groupColumns(app, q.groups[i])])

(* An event-name disjunction without the $all_event case *)
Long_buildWhereQueryArr_NoSentinel(app, q) ==
    << Long_buildOptimizedDateRangeQuery(app, q),
       POr([i \in DOMAIN q.metrics |->
              PCmp("eq", "eventName", q.metrics[i].name)]) >>

Long_buildWhereQueryArr(app, q) ==
    << Long_buildOptimizedDateRangeQuery(app, q),
       POr([i \in DOMAIN q.metrics |->
              IF q.metrics[i].name = AllEvent THEN PTrue
              ELSE PCmp("eq", "eventName", q.metrics[i].name)]) >>

----------------------------------------------------------------------------
(* WarehouseWideTableInsightsSqlBuilder: the wide-table builder *)

(* A lookup by name alone *)
Wide_getApplication_ByName(apps, q) ==
    IF FindIndex({i \in DOMAIN apps : apps[i].name = q.insightId}) = 0
    THEN Throw(ApplicationNotFound)
    ELSE Ok(apps[FindIndex({i \in DOMAIN apps : apps[i].name = q.insightId})])

Wide_getApplication(apps, q) ==
    IF FindIndex({i \in DOMAIN apps : apps[i].name = q.insightId
                                      /\ apps[i].type = "wideTable"}) = 0
    THEN Throw(ApplicationNotFound)
    ELSE Ok(apps[FindIndex({i \in DOMAIN apps : apps[i].name = q.insightId
                                               /\ apps[i].type = "wideTable"})])

Wide_enableDateBasedOptimizedEventTable(app, q) ==
    /\ app.dateBasedCreatedAtField # Undefined
    /\ DayDiff(q.time.endAt, q.time.startAt) >= 1

Wide_buildOptimizedDateRangeQuery(app, q) ==
    DateRangeBounds(app, q, Wide_enableDateBasedOptimizedEventTable(app, q))

(* A bucket expression that always reads the creation timestamp *)
Wide_buildOptimizedDateQuerySql_Raw(app, q) ==
    getDateQuery("createdAt", q.time.unit, app.createdAtFieldType)

Wide_buildOptimizedDateQuerySql(app, q) ==
    IF Wide_enableDateBasedOptimizedEventTable(app, q)
       /\ app.dateBasedCreatedAtField # Undefined
    THEN Ok(DateExpr("DATE_FORMAT", "dateBased", "date", RawFormat(q.time.unit)))
    ELSE getDateQuery("createdAt", q.time.unit, app.createdAtFieldType)

Wide_buildSelectQueryArr(app, q) ==
    [i \in DOMAIN q.metrics |->
        CASE q.metrics[i].math = "events" ->
                IF q.metrics[i].name = AllEvent
                THEN Aggregate("count", "1", AllEvent)
                ELSE Aggregate("count", q.metrics[i].name, q.metrics[i].name)
          [] q.metrics[i].math = "sessions" ->
                IF q.metrics[i].name = AllEvent
                THEN Aggregate("count distinct", app.distinctField, AllEvent)
                ELSE Aggregate("count distinct case", q.metrics[i].name,
                               q.metrics[i].name)
          [] OTHER -> NullSql]

Wide_buildWhereQueryArr(app, q) ==
    << Ok(Wide_buildOptimizedDateRangeQuery(app, q)) >> \o
    [i \in DOMAIN q.filters |->
        buildCommonFilterQueryOperator(q.filters[i].type, q.filters[i].operator,
                                       q.filters[i].value, q.filters[i].name)]

Wide_groupColumns(app, g) ==
    IF ~g.hasCustomGroups
    THEN <<Ok(GroupColumn(PColumn(g.value), GroupAlias(g)))>>
    ELSE [j \in DOMAIN g.customGroups |->
            LET cg == g.customGroups[j]
                f == buildCommonFilterQueryOperator(g.type, cg.filterOperator,
                                                    cg.filterValue, g.value)
            IN  IF f.err # "" THEN f
                ELSE Ok(GroupColumn(f.val, CustomGroupAlias(g, cg)))]

Wide_buildGroupSelectQueryArr(app, q) ==
    Flatten([i \in DOMAIN q.groups |-> Wide_groupColumns(app, q.groups[i])])

----------------------------------------------------------------------------
(* InsightsSqlBuilder.build(): assemble the statement from the fragments;   *)
(* any fragment that throws makes build throw, and no statement exists.     *)

Values(results) == [i \in DOMAIN results |-> results[i].val]

build(application, date, select, group, where) ==
    IF application.err # "" THEN BuildFailed(application.err)
    ELSE IF FirstError(group \o where \o <<date>>) # ""
    THEN BuildFailed(FirstError(group \o where \o <<date>>))
    ELSE BuildOut("", application.val.tableName, date.val, select,
                  Values(group), Values(where))

(* new WarehouseInsightsSqlBuilder(query, context).build() *)
Long_build(apps, q) ==
    LET a == Long_getApplication(apps, q)
    IN  IF a.err # "" THEN BuildFailed(a.err)
        ELSE build(a,
                   Long_buildOptimizedDateQuerySql(a.val, q),
                   Long_buildSelectQueryArr(a.val, q),
                   Long_buildGroupSelectQueryArr(a.val, q),
                   [i \in {1, 2} |-> Ok(Long_buildWhereQueryArr(a.val, q)[i])])

(* new WarehouseWideTableInsightsSqlBuilder(query, context).build() *)
Wide_build(apps, q) ==
    LET a == Wide_getApplication(apps, q)
    IN  IF a.err # "" THEN BuildFailed(a.err)
        ELSE build(a,
                   Wide_buildOptimizedDateQuerySql(a.val, q),
                   Wide_buildSelectQueryArr(a.val, q),
                   Wide_buildGroupSelectQueryArr(a.val, q),
                   Wide_buildWhereQueryArr(a.val, q))

----------------------------------------------------------------------------
(* Connections *)

ConnResult(err, connection, poolLog, reg) ==
    [err |-> err, connection |-> connection, pools |-> poolLog, registry |-> reg]

(* A connection lookup that tests the enable flag alone *)
Long_getConnection_NoUrlCheck(en, u, connection, poolLog, reg) ==
    IF ~en
    THEN ConnResult(WarehouseNotEnabled, connection, poolLog, reg)
    ELSE IF connection = 0
    THEN ConnResult("", Len(poolLog) + 1, Append(poolLog, u), reg)
    ELSE ConnResult("", connection, poolLog, reg)

(* WarehouseInsightsSqlBuilder.getConnection: `connection` is the builder's *)
(* own field (0 = null); createPool appends to the log of pools.            *)
Long_getConnection(en, u, connection, poolLog, reg) ==
    IF ~en \/ u = ""
    THEN ConnResult(WarehouseNotEnabled, connection, poolLog, reg)
    ELSE IF connection = 0
    THEN ConnResult("", Len(poolLog) + 1, Append(poolLog, u), reg)
    ELSE ConnResult("", connection, poolLog, reg)

(* getWarehouseConnection(databaseUrl): the pool registry keyed by          *)
(* connection string, created lazily                                        *)
getWarehouseConnection(en, u, poolLog, reg) ==
    IF ~en \/ u = ""
    THEN ConnResult(WarehouseNotEnabled, 0, poolLog, reg)
    ELSE IF reg[u] = 0
    THEN ConnResult("", Len(poolLog) + 1, Append(poolLog, u),
                    [reg EXCEPT ![u] = Len(poolLog) + 1])
    ELSE ConnResult("", reg[u], poolLog, reg)

----------------------------------------------------------------------------
(* Request handlers *)

Request(pc, kind, buildErr, connection, sends, error) ==
    [pc |-> pc, kind |-> kind, buildErr |-> buildErr, connection |-> connection,
     sends |-> sends, error |-> error]
IdleRequest == Request("idle", "none", "", 0, 0, "")

(* A handler that swallows the build error and executes anyway *)
RunRequest_ExecuteAnyway(kind, out, conn) ==
    IF conn.err # "" THEN Request("failed", kind, out.err, 0, 0, conn.err)
    ELSE Request("waiting", kind, out.err, conn.connection, 1, "")

(* const sql = builder.build(); const data = await builder.executeQuery(sql) *)
(* up to the await: a throw of build() or of the connection lookup leaves    *)
(* the handler before connection.query is called.                            *)
RunRequest(kind, out, conn) ==
    IF out.err # "" THEN Request("failed", kind, out.err, 0, 0, out.err)
    ELSE IF conn.err # "" THEN Request("failed", kind, "", 0, 0, conn.err)
    ELSE Request("waiting", kind, "", conn.connection, 1, "")

Requests == 1 .. NumReq

(* insightsWarehouse(query, context), from the call to its first await *)
InsightsWarehouse(r, q) ==
    /\ req[r].pc = "idle"
    /\ LET g == getWarehouseApplications(applications, applicationsJson)
           out == IF g.err # "" THEN BuildFailed(g.err)
                  ELSE Long_build(g.result, q)
           conn == Long_getConnection(enable, url, 0, pools, registry)
           next == RunRequest("long", out, conn)
       IN  /\ applications' = g.cache
           /\ parseCount' = parseCount + g.parsed
           /\ returned' = IF g.err # "" THEN returned
                        ELSE returned \cup {g.result}
           /\ req' = [req EXCEPT ![r] = next]
           /\ pools' = IF next.sends > 0 THEN conn.pools ELSE pools
    /\ UNCHANGED <<applicationsJson, enable, url, registry, built, lookup>>
    /\ UNCHANGED <<dispatch, wire>>
    /\ UNCHANGED clientVars
    /\ UNCHANGED gatewayVars

(* insightsWideTableWarehouse(query, context), from the call to its first await *)
InsightsWideTableWarehouse(r, q) ==
    /\ req[r].pc = "idle"
    /\ LET g == getWarehouseApplications(applications, applicationsJson)
           out == IF g.err # "" THEN BuildFailed(g.err)
                  ELSE Wide_build(g.result, q)
           a == IF g.err # "" THEN Throw(g.err)
                ELSE Wide_getApplication(g.result, q)
           conn == IF a.err # ""
                   THEN ConnResult(a.err, 0, pools, registry)
                   ELSE getWarehouseConnection(enable, a.val.databaseUrl,
                                               pools, registry)
           next == RunRequest("wide", out, conn)
       IN  /\ applications' = g.cache
           /\ parseCount' = parseCount + g.parsed
           /\ returned' = IF g.err # "" THEN returned
                        ELSE returned \cup {g.result}
           /\ req' = [req EXCEPT ![r] = next]
           /\ pools' = IF next.sends > 0 THEN conn.pools ELSE pools
           /\ registry' = IF next.sends > 0 THEN conn.registry ELSE registry
    /\ UNCHANGED <<applicationsJson, enable, url, built, lookup>>
    /\ UNCHANGED <<dispatch, wire>>
    /\ UNCHANGED clientVars
    /\ UNCHANGED gatewayVars

(* connection.query resolves: the rows are reshaped and returned *)
QueryResolved(r) ==
    /\ req[r].pc = "waiting"
    /\ req' = [req EXCEPT ![r].pc = "done"]
    /\ UNCHANGED <<applicationsJson, enable, url, applications, parseCount,
                   returned, pools, registry, built, lookup>>
    /\ UNCHANGED <<dispatch, wire>>
    /\ UNCHANGED clientVars
    /\ UNCHANGED gatewayVars

(* A rejection answered by sending the statement once more *)
QueryRejected_Retry(r) ==
    /\ req[r].pc = "waiting"
    /\ req[r].sends < 3
    /\ req' = [req EXCEPT ![r].sends = req[r].sends + 1]
    /\ UNCHANGED <<applicationsJson, enable, url, applications, parseCount,
                   returned, pools, registry, built, lookup>>
    /\ UNCHANGED <<dispatch, wire>>
    /\ UNCHANGED clientVars
    /\ UNCHANGED gatewayVars

(* connection.query rejects: the error propagates out of the handler *)
QueryRejected(r) ==
    /\ req[r].pc = "waiting"
    /\ req' = [req EXCEPT ![r].pc = "failed",
                          ![r].error = "Statement execution failed"]
    /\ UNCHANGED <<applicationsJson, enable, url, applications, parseCount,
                   returned, pools, registry, built, lookup>>
    /\ UNCHANGED <<dispatch, wire>>
    /\ UNCHANGED clientVars
    /\ UNCHANGED gatewayVars

(* A configuration change that drops the parsed list *)
SetApplicationsJson_Invalidate(json) ==
    /\ json # applicationsJson
    /\ applicationsJson' = json
    /\ applications' = NullApplications
    /\ UNCHANGED <<enable, url, parseCount, returned, pools,
                   registry, req, built, lookup>>
    /\ UNCHANGED <<dispatch, wire>>
    /\ UNCHANGED clientVars
    /\ UNCHANGED gatewayVars

(* env.insights.warehouse.applicationsJson = JSON.stringify([...]): the    *)
(* configuration is assigned; nothing else is                              *)
SetApplicationsJson(json) ==
    /\ json # applicationsJson
    /\ applicationsJson' = json
    /\ UNCHANGED <<enable, url, applications, parseCount, returned, pools,
                   registry, req, built, lookup>>
    /\ UNCHANGED <<dispatch, wire>>
    /\ UNCHANGED clientVars
    /\ UNCHANGED gatewayVars

----------------------------------------------------------------------------
(* Inputs *)

Units == (DOMAIN MYSQL_DATE_FORMATS) \cup {"week"}

MetricLists ==
    { <<Metric(AllEvent, "events")>>,
      <<Metric("x", "events")>>,
      <<Metric("x", "events"), Metric("y", "events")>>,
      <<Metric("x", "events"), Metric(AllEvent, "events")>>,
      <<Metric(AllEvent, "sessions")>>,
      <<Metric("x", "sessions"), Metric("y", "events")>> }

FilterLists ==
    { <<>>,
      <<Filter("p", "number", "equals", 1)>>,
      <<Filter("p", "number", "greater than", 0),
        Filter("p", "number", "not equals", 2)>>,
      <<Filter("p", "number", "matches", 1)>> }

GroupLists ==
    { <<>>,
      <<Group("p", "number", FALSE, <<>>)>>,
      <<Group("p", "number", TRUE,
              <<CustomGroup("less than", Num(1)), CustomGroup("equals", Num(1))>>)>>,
      <<Group("s", "string", TRUE,
              <<CustomGroup("in list", List(<<"a", "b">>)),
                CustomGroup("in list", List(<<"a,b">>))>>),
        Group("p", "number", FALSE, <<>>)>>,
      <<Group("s", "string", TRUE,
              <<CustomGroup("equals", Str("1|equals|2")),
                CustomGroup("equals", Num(1)),
                CustomGroup("equals", Str("1"))>>)>>,
      <<Group("s", "string", FALSE, <<>>),
        Group("p", "number", TRUE, <<>>)>>,
      <<Group("p", "number", FALSE, <<>>), Group("s", "string", FALSE, <<>>),
        Group("d", "date", FALSE, <<>>), Group("b", "boolean", FALSE, <<>>)>> }

(* Caller-supplied names that hold the delimiter, the alias prefix or a     *)
(* quote character, next to plain ones                                     *)
ReservedMetricLists ==
    { <<Metric(AllEvent, "events")>>, <<Metric("x|y", "events")>> }
ReservedFilterLists ==
    { <<>>, <<Filter("p%q", "number", "equals", 1)>> }
ReservedGroupLists ==
    { <<>>, <<Group("g\"h", "string", FALSE, <<>>)>>,
      <<Group("g'h", "string", TRUE, <<CustomGroup("equals", Str("1"))>>)>> }

(* Windows around the one-day and two-day boundaries, from the day's start *)
(* or just after                                                          *)
WindowEnds(s) ==
    {s, s + 1, MsPerDay - 1, MsPerDay, MsPerDay + 1, 2 * MsPerDay,
     2 * MsPerDay + 1, MaxTime - 1, MaxTime}

Windows == { Time(w[1], w[2], "day") :
                w \in {w \in (0 .. 1) \X (0 .. MaxTime) : w[2] \in WindowEnds(w[1])} }

(* Every metric list, filter list, window and unit without groups, and     *)
(* every group list over a one-day window                                  *)
BuildQueries ==
    { Query(id, m, f, <<>>, [w EXCEPT !.unit = u]) :
        id \in InsightIds, m \in MetricLists, f \in FilterLists,
        w \in {w \in Windows : w.startAt <= w.endAt}, u \in Units }
    \cup
    { Query(id, m, f, g, Time(0, MsPerDay, u)) :
        id \in InsightIds, m \in MetricLists,
        f \in {<<>>, <<Filter("p", "number", "matches", 1)>>},
        g \in GroupLists, u \in Units }
    \cup
    { Query(id, m, f, g, Time(0, MsPerDay, "day")) :
        id \in InsightIds, m \in ReservedMetricLists,
        f \in ReservedFilterLists, g \in ReservedGroupLists }

ReqQueries ==
    { Query(id, <<Metric(AllEvent, "events")>>, f, <<>>, Time(0, MsPerDay, u)) :
        id \in InsightIds, u \in {"day", "week"},
        f \in {<<>>, <<Filter("p", "number", "matches", 1)>>} }

Configs ==
    { <<>>, <<AppTest>>, <<AppLongA, AppWideA, AppWideB>>,
      <<AppNoName>>, <<AppLongA, AppBadType>> }

BuildConfigs ==
    { <<>>, <<AppTest>>, <<AppLongA, AppWideA, AppWideB>>,
      <<AppWideA2, AppLongB, AppWideA>>, <<AppLongT>> }

EventNames == {"x", "y", "z"}

(* Tables: 3 rows at one instant, 2 at a second and 2 at a third *)
RowsAt(t, n, eventName) == [i \in 1 .. n |-> Row(t, eventName, 0)]
Tables ==
    {<<>>} \cup
    { RowsAt(a, 3, "x") \o RowsAt(b, 2, "y") \o RowsAt(c, 2, "x") :
        a \in {0, MsPerDay - 1}, b \in {1, MsPerDay},
        c \in {MsPerDay, MsPerDay + 1, 2 * MsPerDay} }

(* Date ranges of the chart: within a day, one day, up to two days *)
DateRanges ==
    { <<0, MsPerSec>>, <<0, MsPerDay>>, <<1, MsPerDay + 1>>,
      <<0, 2 * MsPerDay - 1>>, <<0, 2 * MsPerDay>> }

GroupKeyLists == { <<>>, <<"g1">>, <<"g1", "g2">>, <<"g2", "g1">> }

(* Series as the query of another insight type returns them *)
SeriesA == Series("m1", [g1 |-> "a", g2 |-> "c"], <<Point(0, 1), Point(1, 2)>>)
SeriesB == Series("m1", [g1 |-> "b", g2 |-> "c"], <<Point(1, 3)>>)
SeriesC == Series("m2", [g1 |-> "a", g2 |-> "d"],
                  <<Point(0, 0), Point(1, 1), Point(2, 2)>>)
(* Two series of one metric whose group values hold the joining character *)
SeriesD == Series("m1", [g1 |-> "a-b", g2 |-> "c"], <<Point(0, 1), Point(1, 1)>>)
SeriesE == Series("m1", [g1 |-> "a", g2 |-> "b-c"], <<Point(0, 2), Point(1, 0)>>)
SeriesLists ==
    { <<>>, <<SeriesA>>, <<SeriesA, SeriesB>>, <<SeriesB, SeriesA>>,
      <<SeriesA, SeriesB, SeriesC>>, <<SeriesC, SeriesA>>,
      <<SeriesD, SeriesE>> }
Rows == { Row(t, e, p) : t \in 0 .. MaxTime + 1, e \in EventNames, p \in 0 .. 2 }

----------------------------------------------------------------------------
(* Direct builder calls and lookups *)

NoApp == RawApp("", "", "", Undefined, "")
AppResult(a) == IF a.err # "" THEN [err |-> a.err, val |-> NoApp] ELSE a

Built(kind, q, application, dateErr, out) ==
    [kind |-> kind, query |-> q, application |-> application,
     dateErr |-> dateErr, out |-> out]

DefaultQuery ==
    Query("test", <<Metric(AllEvent, "events")>>, <<>>, <<>>,
          Time(0, MsPerDay, "day"))

NoBuilt == Built("none", DefaultQuery, AppResult(Throw("not built")), "", NoBuild)
NoLookup == [id |-> "", err |-> "not called", val |-> NoApp]

(* What findWarehouseApplication resolved (an application or nothing) and  *)
(* the builders the events listing constructed for it                      *)
Resolved(app) == [isNull |-> FALSE, value |-> app]
NotResolved == [isNull |-> TRUE, value |-> NoApp]

Dispatch(called, application, builders, error) ==
    [called |-> called, application |-> application, builders |-> builders,
     error |-> error]
NoDispatch == Dispatch(FALSE, NotResolved, {}, "")

(* new WarehouseInsightsSqlBuilder(query, context).build(), as the test does *)
BuildLongTable(q) ==
    /\ LET g == getWarehouseApplications(applications, applicationsJson)
           a == AppResult(IF g.err # "" THEN Throw(g.err)
                          ELSE Long_getApplication(g.result, q))
       IN  /\ applications' = g.cache
           /\ parseCount' = parseCount + g.parsed
           /\ returned' = IF g.err # "" THEN returned
                        ELSE returned \cup {g.result}
           /\ built' = Built("long", q, a,
                    IF a.err # "" THEN a.err
                    ELSE Long_buildOptimizedDateQuerySql(a.val, q).err,
                    IF g.err # "" THEN BuildFailed(g.err)
                    ELSE Long_build(g.result, q))
    /\ UNCHANGED <<applicationsJson, enable, url, pools, registry, req, lookup>>
    /\ UNCHANGED <<dispatch, wire>>
    /\ UNCHANGED clientVars
    /\ UNCHANGED gatewayVars

(* new WarehouseWideTableInsightsSqlBuilder(query, context).build() *)
BuildWideTable(q) ==
    /\ LET g == getWarehouseApplications(applications, applicationsJson)
           a == AppResult(IF g.err # "" THEN Throw(g.err)
                          ELSE Wide_getApplication(g.result, q))
       IN  /\ applications' = g.cache
           /\ parseCount' = parseCount + g.parsed
           /\ returned' = IF g.err # "" THEN returned
                        ELSE returned \cup {g.result}
           /\ built' = Built("wide", q, a,
                    IF a.err # "" THEN a.err
                    ELSE Wide_buildOptimizedDateQuerySql(a.val, q).err,
                    IF g.err # "" THEN BuildFailed(g.err)
                    ELSE Wide_build(g.result, q))
    /\ UNCHANGED <<applicationsJson, enable, url, pools, registry, req, lookup>>
    /\ UNCHANGED <<dispatch, wire>>
    /\ UNCHANGED clientVars
    /\ UNCHANGED gatewayVars

(* One builder call on a fresh process *)
BuildLongTableAny ==
    /\ built = NoBuilt /\ lookup = NoLookup /\ dispatch = NoDispatch
    /\ \E q \in BuildQueries : BuildLongTable(q)

BuildWideTableAny ==
    /\ built = NoBuilt /\ lookup = NoLookup /\ dispatch = NoDispatch
    /\ \E q \in BuildQueries : BuildWideTable(q)

(* insightsWideTableWarehouseEvents(applicationId) *)
InsightsWideTableWarehouseEvents(id) ==
    /\ built = NoBuilt /\ lookup = NoLookup /\ dispatch = NoDispatch
    /\ LET g == getWarehouseApplications(applications, applicationsJson)
           i == FindIndex({j \in DOMAIN g.result :
                              /\ g.result[j].name = id
                              /\ g.result[j].type = "wideTable"})
       IN  /\ applications' = g.cache
           /\ parseCount' = parseCount + g.parsed
           /\ returned' = IF g.err # "" THEN returned
                        ELSE returned \cup {g.result}
           /\ lookup' = IF g.err # ""
                        THEN [id |-> id, err |-> g.err, val |-> NoApp]
                        ELSE IF i = 0
                        THEN [id |-> id, err |-> "Event table not found",
                              val |-> NoApp]
                        ELSE [id |-> id, err |-> "", val |-> g.result[i]]
    /\ UNCHANGED <<applicationsJson, enable, url, pools, registry, req, built>>
    /\ UNCHANGED <<dispatch, wire>>
    /\ UNCHANGED clientVars
    /\ UNCHANGED gatewayVars

(* queryWarehouseEvents(query, context): the events listing *)

(* A dispatch that refuses a request whose application is not resolved *)
queryWarehouseEvents_NotFound(application) ==
    IF application.isNull
    THEN Dispatch(TRUE, application, {}, ApplicationNotFound)
    ELSE IF application.value.type = "wideTable"
    THEN Dispatch(TRUE, application, {"wide"}, "")
    ELSE Dispatch(TRUE, application, {"long"}, "")

(* `application?.type === 'wideTable'` picks the wide-table builder; every *)
(* other case falls through to the long-table builder                      *)
queryWarehouseEvents(application) ==
    IF ~application.isNull /\ application.value.type = "wideTable"
    THEN Dispatch(TRUE, application, {"wide"}, "")
    ELSE Dispatch(TRUE, application, {"long"}, "")

(* The applications a lookup may resolve: any configured one, or none *)
ResolvedApplications ==
    {NotResolved} \cup
    UNION { {Resolved(ParseApplications(json)[i]) : i \in DOMAIN json} :
              json \in BuildConfigs }

QueryWarehouseEvents(application) ==
    /\ built = NoBuilt /\ lookup = NoLookup /\ dispatch = NoDispatch
    /\ dispatch' = queryWarehouseEvents(application)
    /\ UNCHANGED <<applicationsJson, enable, url, applications, parseCount,
                   returned, pools, registry, req, built, lookup, wire>>
    /\ UNCHANGED clientVars
    /\ UNCHANGED gatewayVars

----------------------------------------------------------------------------
(* executeQuery(sql): the statement text as its characters.  A TLA+ string *)
(* cannot hold the backtick, so that character goes by its name.           *)

DoubleQuote == "\""
Backtick == "backtick"
Characters == {DoubleQuote, Backtick, "a", "?"}

Texts == UNION { [1 .. n -> Characters] : n \in 0 .. MaxTextLen }
BoundValues ==
    { <<>>, <<Num(1)>>, <<Num(2), Num(1)>>, <<Str("a\"b"), Num(1)>> }

(* A Prisma.Sql: its text with placeholders, and the values bound to them *)
Sql(text, values) == [sql |-> text, values |-> values]
Statements == { Sql(text, values) : text \in Texts, values \in BoundValues }

(* String.prototype.replace with a string pattern: the first match only *)
replaceAll_First(text, pattern, replacement) ==
    [i \in DOMAIN text |->
        IF text[i] = pattern /\ \A j \in 1 .. (i - 1) : text[j] # pattern
        THEN replacement ELSE text[i]]

(* String.prototype.replaceAll with a one-character pattern *)
replaceAll(text, pattern, replacement) ==
    [i \in DOMAIN text |-> IF text[i] = pattern THEN replacement ELSE text[i]]

(* What connection.query was given, or the error thrown before the call *)
Wire(called, sql, text, values, connection, error) ==
    [called |-> called, sql |-> sql, text |-> text, values |-> values,
     connection |-> connection, error |-> error]
NoWire == Wire(FALSE, Sql(<<>>, <<>>), <<>>, <<>>, 0, "")

Executed(sql, conn) ==
    IF conn.err # "" THEN Wire(TRUE, sql, <<>>, <<>>, 0, conn.err)
    ELSE Wire(TRUE, sql, replaceAll(sql.sql, DoubleQuote, Backtick),
              sql.values, conn.connection, "")

(* WarehouseInsightsSqlBuilder.executeQuery(sql) on a fresh builder *)
Long_executeQuery(sql) ==
    /\ ~wire.called
    /\ LET conn == Long_getConnection(enable, url, 0, pools, registry)
       IN  /\ wire' = Executed(sql, conn)
           /\ pools' = conn.pools
           /\ registry' = conn.registry
    /\ UNCHANGED <<applicationsJson, enable, url, applications, parseCount,
                   returned, req, built, lookup, dispatch>>
    /\ UNCHANGED clientVars
    /\ UNCHANGED gatewayVars

(* WarehouseWideTableInsightsSqlBuilder.executeQuery(sql) for an           *)
(* application whose databaseUrl is u                                      *)
Wide_executeQuery(sql, u) ==
    /\ ~wire.called
    /\ LET conn == getWarehouseConnection(enable, u, pools, registry)
       IN  /\ wire' = Executed(sql, conn)
           /\ pools' = conn.pools
           /\ registry' = conn.registry
    /\ UNCHANGED <<applicationsJson, enable, url, applications, parseCount,
                   returned, req, built, lookup, dispatch>>
    /\ UNCHANGED clientVars
    /\ UNCHANGED gatewayVars

----------------------------------------------------------------------------
(* Statement execution and reshaping: what insightsWarehouse returns *)

(* MySQL on a table (a list of rows): the selected rows, grouped by the     *)
(* bucket expression; one result row per bucket that holds a selected row  *)
SelectedRows(out, table, app) ==
    {i \in DOMAIN table : Selects(out.where, table[i], app)}

AggregateValue(agg, S, table) ==
    CASE agg.fn = "count" -> Cardinality(S)
      [] agg.fn = "sum case eventName" ->
            Cardinality({i \in S : table[i].eventName = agg.arg})
      [] OTHER -> 0

(* The result rows, keyed by their `date` column; each holds one value per  *)
(* select expression                                                        *)
ExecuteQuery(out, table, app) ==
    [l \in {BucketOf(out.date, table[i], app) :
                i \in SelectedRows(out, table, app)} |->
        [k \in DOMAIN out.select |->
            AggregateValue(out.select[k],
                {i \in SelectedRows(out, table, app) :
                    BucketOf(out.date, table[i], app) = l}, table)]]

(* The buckets a window spans at a unit, first to last *)
WindowBuckets(time) ==
    CASE time.unit = "day" ->
            [i \in 1 .. (FormatDay(time.endAt) - FormatDay(time.startAt) + 1) |->
                FormatDay(time.startAt) + i - 1]
      [] time.unit \in {"minute", "hour"} ->
            [i \in 1 .. (Unix(time.endAt) - Unix(time.startAt) + 1) |->
                Unix(time.startAt) + i - 1]
      [] OTHER -> <<0>>

(* processGroupedTimeSeriesData(query, context, data) for a request without *)
(* groups: one series per metric, one point per bucket of the window, 0     *)
(* where the statement returned no row for the bucket                       *)
processGroupedTimeSeriesData(q, data) ==
    [k \in DOMAIN q.metrics |->
        Series(q.metrics[k].name, <<>>,
               [i \in DOMAIN WindowBuckets(q.time) |->
                   Point(WindowBuckets(q.time)[i],
                         IF WindowBuckets(q.time)[i] \in DOMAIN data
                         THEN data[WindowBuckets(q.time)[i]][k] ELSE 0)])]

(* insightsWarehouse(query, context) over a table, when the statement runs *)
insightsWarehouse(apps, table, q) ==
    IF Long_build(apps, q).err # "" THEN Throw(Long_build(apps, q).err)
    ELSE Ok(processGroupedTimeSeriesData(q,
                ExecuteQuery(Long_build(apps, q), table,
                             Long_getApplication(apps, q).val)))

----------------------------------------------------------------------------
(* ChartRender.tsx *)

(* end.diff(start, 'day') <= 1 *)
allowMinute(dateRange) == DayDiff(dateRange[2], dateRange[1]) <= 1

(* lodash get(item, group.value); join prints a missing value as '' *)
Get(item, key) == IF key \in DOMAIN item.dims THEN item.dims[key] ELSE ""

(* Array.prototype.join('-') *)
RECURSIVE JoinDash(_)
JoinDash(items) ==
    IF items = <<>> THEN ""
    ELSE IF Len(items) = 1 THEN items[1]
    ELSE items[1] \o "-" \o JoinDash(Tail(items))

(* A key that lists the group values last to first *)
SeriesName_Reversed(item, groups) ==
    IF Len(groups) > 0
    THEN item.name \o "-" \o JoinDash([i \in DOMAIN groups |->
                                          Get(item, groups[Len(groups) + 1 - i])])
    ELSE item.name

(* The key of a series in a chart row *)
SeriesName(item, groups) ==
    IF Len(groups) > 0
    THEN item.name \o "-" \o JoinDash([i \in DOMAIN groups |-> Get(item, groups[i])])
    ELSE item.name

(* A lookup that leaves a missing date without a value (-1 for undefined) *)
ValueAt_NoFill(item, date) ==
    IF \E i \in DOMAIN item.data : item.data[i].date = date
    THEN item.data[FindIndex({i \in DOMAIN item.data :
                                  item.data[i].date = date})].value
    ELSE 0 - 1

(* item.data.find((d) => d.date === date)?.value ?? 0 *)
ValueAt(item, date) ==
    IF \E i \in DOMAIN item.data : item.data[i].date = date
    THEN item.data[FindIndex({i \in DOMAIN item.data :
                                  item.data[i].date = date})].value
    ELSE 0

(* The dates of the first series, each once, in order of first appearance: *)
(* the groups of groupBy(res, 'date')                                       *)
FirstDates(data) ==
    LET dates == [i \in DOMAIN data[1].data |-> data[1].data[i].date]
        firsts == {i \in DOMAIN dates : \A j \in 1 .. (i - 1) : dates[j] # dates[i]}
        Nth(n) == CHOOSE i \in firsts : Cardinality({j \in firsts : j <= i}) = n
    IN  [n \in 1 .. Cardinality(firsts) |-> dates[Nth(n)]]

(* chartData: one row per date; merge(...list) lets the last series of a    *)
(* key give the key its value                                               *)
chartData(data, groups) ==
    IF data = <<>> THEN <<>>
    ELSE [n \in DOMAIN FirstDates(data) |->
            [date |-> FirstDates(data)[n],
             values |->
                [name \in {SeriesName(data[i], groups) : i \in DOMAIN data} |->
                    LET last == CHOOSE i \in DOMAIN data :
                                  /\ SeriesName(data[i], groups) = name
                                  /\ \A j \in DOMAIN data :
                                        SeriesName(data[j], groups) = name => j <= i
                    IN  ValueAt(data[last], FirstDates(data)[n])]]]

NoSource == [kind |-> "none", apps |-> <<>>, table |-> <<>>]
NoTime == Time(0, 0, "none")

View(mounted, dateRange, dateUnit, allow, query, fetching, data, source, rows) ==
    [mounted |-> mounted, dateRange |-> dateRange, dateUnit |-> dateUnit,
     allowMinute |-> allow, query |-> query, fetching |-> fetching,
     data |-> data, source |-> source, chartData |-> rows]

(* The request ChartRender sends: the store's metrics and groups, its time *)
ChartQuery(time) ==
    Query(store.insightId, store.metrics, <<>>,
          [i \in DOMAIN store.groups |-> Group(store.groups[i], "string", FALSE, <<>>)],
          time)

(* One render of ChartRender and the effects it schedules: the memos        *)
(* allowMinute, time and chartData, useQuery on the new key (data is [] ,   *)
(* the default, until the result of a new key arrives), then the useWatch   *)
(* callback, which resets the unit and so schedules the next render.        *)
Render ==
    LET time == Time(store.dateRange[1], store.dateRange[2], store.dateUnit)
        allow == allowMinute(store.dateRange)
        newKey == time # view.query
        data == IF newKey THEN <<>> ELSE view.data
    IN  /\ \/ ~view.mounted
           \/ view.dateRange # store.dateRange
           \/ view.dateUnit # store.dateUnit
           \/ view.chartData # chartData(view.data, store.groups)
        /\ view' = View(TRUE, store.dateRange, store.dateUnit, allow, time,
                        view.fetching \/ newKey, data,
                        IF newKey THEN NoSource ELSE view.source,
                        chartData(data, store.groups))
        /\ store' = IF ~allow /\ store.dateUnit = "minute"
                    THEN [store EXCEPT !.dateUnit = "day"]
                    ELSE store
        /\ UNCHANGED serverVars
        /\ UNCHANGED gatewayVars

(* DateRangeSelection onChange: setDateRange(range) *)
SetCurrentDateRange(range) ==
    /\ view.mounted
    /\ range # store.dateRange
    /\ store' = [store EXCEPT !.dateRange = range]
    /\ UNCHANGED view
    /\ UNCHANGED serverVars
    /\ UNCHANGED gatewayVars

(* DateUnitSelection onChange: setDateUnit(unit); the selection is given    *)
(* allowMinute and offers minute only while it holds                        *)
SetCurrentDateUnit(unit) ==
    /\ view.mounted
    /\ unit # store.dateUnit
    /\ unit = "minute" => view.allowMinute
    /\ store' = [store EXCEPT !.dateUnit = unit]
    /\ UNCHANGED view
    /\ UNCHANGED serverVars
    /\ UNCHANGED gatewayVars

(* The result of the pending query arrives from insightsWarehouse *)
QuerySettledWarehouse(apps, table) ==
    /\ view.fetching
    /\ store.groups = <<>>
    /\ insightsWarehouse(apps, table, ChartQuery(view.query)).err = ""
    /\ view' = [view EXCEPT
                  !.fetching = FALSE,
                  !.data = insightsWarehouse(apps, table, ChartQuery(view.query)).val,
                  !.source = [kind |-> "warehouse", apps |-> apps, table |-> table]]
    /\ UNCHANGED store
    /\ UNCHANGED serverVars
    /\ UNCHANGED gatewayVars

(* The result of the pending query arrives from another insight type *)
QuerySettled(data) ==
    /\ view.fetching
    /\ view' = [view EXCEPT !.fetching = FALSE, !.data = data,
                            !.source = [NoSource EXCEPT !.kind = "other"]]
    /\ UNCHANGED store
    /\ UNCHANGED serverVars
    /\ UNCHANGED gatewayVars

----------------------------------------------------------------------------
(* aiGatewayRouter.logs and the cursor paginator *)

LogRow(id, workspaceId, gatewayId) ==
    [id |-> id, workspaceId |-> workspaceId, gatewayId |-> gatewayId]

(* orderBy: {id: 'desc'} *)
RECURSIVE SortDesc(_)
SortDesc(S) ==
    IF S = {} THEN <<>>
    ELSE LET m == CHOOSE r \in S : \A o \in S : o.id <= r.id
         IN  <<m>> \o SortDesc(S \ {m})

Take(list, n) == SubSeq(list, 1, IF n < Len(list) THEN n ELSE Len(list))

(* fetchDataByCursor(model, {where, limit, cursor, cursorName: 'id', order: *)
(* 'desc'}): the rows of `matching` beyond the cursor (0 = no cursor), the  *)
(* first `limit` of them; nextCursor is the id of the last returned item,   *)
(* 0 (absent) when fewer than `limit` items were returned                   *)
fetchDataByCursor(matching, limit, cursor) ==
    LET items == Take(SortDesc({r \in matching : cursor = 0 \/ r.id < cursor}),
                      limit)
    IN  [items |-> items,
         nextCursor |-> IF Len(items) < limit THEN 0 ELSE items[Len(items)].id]

LogsInput(workspaceId, gatewayId, cursor, limit, logId) ==
    [workspaceId |-> workspaceId, gatewayId |-> gatewayId, cursor |-> cursor,
     limit |-> limit, logId |-> logId]

(* A handler that drops the cursor of its input *)
logs_NoCursor(table, input) ==
    fetchDataByCursor(
        {r \in table : /\ r.workspaceId = input.workspaceId
                       /\ r.gatewayId = input.gatewayId
                       /\ input.logId # 0 => r.id = input.logId},
        input.limit, 0)

(* aiGatewayRouter.logs: where {workspaceId, gatewayId, id: logId if given} *)
(* (logId 0 = not given), cursor column id, descending                      *)
logs(table, input) ==
    fetchDataByCursor(
        {r \in table : /\ r.workspaceId = input.workspaceId
                       /\ r.gatewayId = input.gatewayId
                       /\ input.logId # 0 => r.id = input.logId},
        input.limit, input.cursor)

Pager(input, visited, pages, done) ==
    [input |-> input, visited |-> visited, pages |-> pages, done |-> done]
NoPager == Pager(LogsInput("", "", 0, 1, 0), <<>>, 0, TRUE)

(* The caller fetches the next page with the nextCursor of the prior one    *)
(* and stops when a page comes without nextCursor                           *)
FetchNextPage ==
    /\ ~pager.done
    /\ LET page == logs(aIGatewayLogs, pager.input)
       IN  pager' = Pager([pager.input EXCEPT !.cursor = page.nextCursor],
                          pager.visited \o [i \in DOMAIN page.items |->
                                                page.items[i].id],
                          pager.pages + 1,
                          page.nextCursor = 0)
    /\ UNCHANGED <<aIGatewayLogs, aIGateway, gatewayInfoCache, mutation>>
    /\ UNCHANGED serverVars
    /\ UNCHANGED clientVars

(* Log tables of n rows; in a mixed table every third row is of gateway g2 *)
LogTable(n, mixed) ==
    { LogRow(i, "w1", IF mixed /\ i % 3 = 0 THEN "g2" ELSE "g1") : i \in 1 .. n }

----------------------------------------------------------------------------
(* aiGatewayRouter create / update / delete: the AI-gateway table, the     *)
(* cache of gateway info and the one mutation in progress                  *)

Workspaces == {"w1", "w2"}
GatewayIds == <<"g1", "g2", "g3">>

GatewayRow(id, workspaceId, name) ==
    [id |-> id, workspaceId |-> workspaceId, name |-> name]
CacheEntry(workspaceId, gatewayId, name) ==
    [workspaceId |-> workspaceId, gatewayId |-> gatewayId, name |-> name]

(* clearGatewayInfoCache(workspaceId, gatewayId): the entry of the key goes *)
clearGatewayInfoCache(cache, workspaceId, gatewayId) ==
    {e \in cache : ~(e.workspaceId = workspaceId /\ e.gatewayId = gatewayId)}

IsCached(cache, workspaceId, gatewayId) ==
    \E e \in cache : e.workspaceId = workspaceId /\ e.gatewayId = gatewayId

MutationInput(workspaceId, gatewayId, name) ==
    [workspaceId |-> workspaceId, gatewayId |-> gatewayId, name |-> name]
(* pc: idle, writing (at the await), written (the write is in the table),   *)
(* done (returned), failed (threw); cached: whether the key was cached when *)
(* the write reached the table                                              *)
Mutation(pc, kind, input, error, cached, calls) ==
    [pc |-> pc, kind |-> kind, input |-> input, error |-> error,
     cached |-> cached, calls |-> calls]
NoMutation == Mutation("idle", "none", MutationInput("", "", ""), "", FALSE, 0)

CreateInputs == { MutationInput(w, "", "n1") : w \in Workspaces }
UpdateInputs == { MutationInput(w, g, "n2") : w \in Workspaces, g \in {"g1", "g2"} }
DeleteInputs == { MutationInput(w, g, "") : w \in Workspaces, g \in {"g1", "g2"} }

(* where: { id: gatewayId, workspaceId } *)
WhereRows(table, input) ==
    {r \in table : r.id = input.gatewayId /\ r.workspaceId = input.workspaceId}

(* The id the table gives a new row: the first one not in use (0 if none) *)
FreshId(table) ==
    FindIndex({i \in DOMAIN GatewayIds : \A r \in table : r.id # GatewayIds[i]})

(* A handler that clears the cache before it awaits the write *)
MutationCalled_ClearFirst(kind, input) ==
    /\ mutation.pc \in {"idle", "done", "failed"}
    /\ mutation.calls < MaxMutations
    /\ mutation' = Mutation("writing", kind, input, "", FALSE, mutation.calls + 1)
    /\ gatewayInfoCache' = clearGatewayInfoCache(gatewayInfoCache,
                                input.workspaceId, input.gatewayId)
    /\ UNCHANGED <<aIGatewayLogs, pager, aIGateway>>
    /\ UNCHANGED serverVars
    /\ UNCHANGED clientVars

(* The mutation handler up to its await: prisma.aIGateway.create / update / *)
(* delete is called with the input                                         *)
MutationCalled(kind, input) ==
    /\ mutation.pc \in {"idle", "done", "failed"}
    /\ mutation.calls < MaxMutations
    /\ mutation' = Mutation("writing", kind, input, "", FALSE, mutation.calls + 1)
    /\ UNCHANGED <<aIGatewayLogs, pager, aIGateway, gatewayInfoCache>>
    /\ UNCHANGED serverVars
    /\ UNCHANGED clientVars

(* The database performs the write: create adds a row, update and delete   *)
(* act on the one row of the id and workspace                              *)
WriteSucceeds ==
    /\ mutation.pc = "writing"
    /\ CASE mutation.kind = "create" ->
              /\ FreshId(aIGateway) # 0
              /\ aIGateway' = aIGateway \cup
                    {GatewayRow(GatewayIds[FreshId(aIGateway)],
                                mutation.input.workspaceId, mutation.input.name)}
         [] mutation.kind = "update" ->
              /\ WhereRows(aIGateway, mutation.input) # {}
              /\ aIGateway' = (aIGateway \ WhereRows(aIGateway, mutation.input))
                    \cup {[r EXCEPT !.name = mutation.input.name] :
                            r \in WhereRows(aIGateway, mutation.input)}
         [] mutation.kind = "delete" ->
              /\ WhereRows(aIGateway, mutation.input) # {}
              /\ aIGateway' = aIGateway \ WhereRows(aIGateway, mutation.input)
    /\ mutation' = [mutation EXCEPT
                       !.pc = "written",
                       !.cached = IsCached(gatewayInfoCache,
                                           mutation.input.workspaceId,
                                           mutation.input.gatewayId)]
    /\ UNCHANGED <<aIGatewayLogs, pager, gatewayInfoCache>>
    /\ UNCHANGED serverVars
    /\ UNCHANGED clientVars

(* The write is rejected (no such row, or the database fails): the await   *)
(* throws and the handler has no catch, so the error leaves the mutation   *)
WriteFails ==
    /\ mutation.pc = "writing"
    /\ mutation' = [mutation EXCEPT !.pc = "failed", !.error = "write failed"]
    /\ UNCHANGED <<aIGatewayLogs, pager, aIGateway, gatewayInfoCache>>
    /\ UNCHANGED serverVars
    /\ UNCHANGED clientVars

(* The handler after its await: update and delete clear the cache of the   *)
(* key, create does not; the row is returned                               *)
MutationResumes ==
    /\ mutation.pc = "written"
    /\ gatewayInfoCache' =
          IF mutation.kind \in {"update", "delete"}
          THEN clearGatewayInfoCache(gatewayInfoCache, mutation.input.workspaceId,
                                     mutation.input.gatewayId)
          ELSE gatewayInfoCache
    /\ mutation' = [mutation EXCEPT !.pc = "done"]
    /\ UNCHANGED <<aIGatewayLogs, pager, aIGateway>>
    /\ UNCHANGED serverVars
    /\ UNCHANGED clientVars

(* Tables of gateways before the first mutation *)
GatewayTables ==
    { {}, {GatewayRow("g1", "w1", "n1")},
      {GatewayRow("g1", "w1", "n1"), GatewayRow("g2", "w2", "n1")} }

----------------------------------------------------------------------------
(* Specifications *)

InitCommon ==
    /\ applications = NullApplications
    /\ parseCount = 0
    /\ returned = {}
    /\ pools = <<>>
    /\ registry = [u \in Urls |-> 0]
    /\ req = [r \in Requests |-> IdleRequest]
    /\ built = NoBuilt
    /\ lookup = NoLookup
    /\ dispatch = NoDispatch
    /\ wire = NoWire

NoStore ==
    [insightId |-> "test", metrics |-> <<Metric(AllEvent, "events")>>,
     groups |-> <<>>, dateRange |-> <<0, MsPerDay>>, dateUnit |-> "day"]
NoView == View(FALSE, <<0, 0>>, "day", TRUE, NoTime, FALSE, <<>>, NoSource, <<>>)

(* No AI gateway exists and no mutation has been called *)
InitNoGateway ==
    /\ aIGateway = {}
    /\ gatewayInfoCache = {}
    /\ mutation = NoMutation

InitNoClient ==
    /\ store = NoStore
    /\ view = NoView
    /\ aIGatewayLogs = {}
    /\ pager = NoPager
    /\ InitNoGateway

(* The server: concurrent requests against the process-wide caches *)
Init ==
    /\ applicationsJson \in Configs
    /\ enable \in BOOLEAN
    /\ url \in {"", "u1"}
    /\ InitCommon
    /\ InitNoClient

Next ==
    \/ \E r \in Requests, q \in ReqQueries : InsightsWarehouse(r, q)
    \/ \E r \in Requests, q \in ReqQueries : InsightsWideTableWarehouse(r, q)
    \/ \E r \in Requests : QueryResolved(r)
    \/ \E r \in Requests : QueryRejected(r)
    \/ \E json \in Configs : SetApplicationsJson(json)

Spec == Init /\ [][Next]_vars

(* The builders alone: every query of BuildQueries compiled by each builder *)
InitBuild ==
    /\ applicationsJson \in BuildConfigs
    /\ enable = TRUE
    /\ url = "u1"
    /\ InitCommon
    /\ InitNoClient

NextBuild ==
    \/ BuildLongTableAny
    \/ BuildWideTableAny
    \/ \E id \in InsightIds : InsightsWideTableWarehouseEvents(id)
    \/ \E application \in ResolvedApplications :
          QueryWarehouseEvents(application)

SpecBuild == InitBuild /\ [][NextBuild]_vars

(* executeQuery alone: every statement of Statements sent by each builder *)
InitExecute ==
    /\ applicationsJson = <<AppTest>>
    /\ enable \in BOOLEAN
    /\ url = "u1"
    /\ InitCommon
    /\ InitNoClient

NextExecute ==
    \/ \E sql \in Statements : Long_executeQuery(sql)
    \/ \E sql \in Statements, u \in Urls : Wide_executeQuery(sql, u)

SpecExecute == InitExecute /\ [][NextExecute]_vars

(* The chart: ChartRender over the store, its queries and their results *)
ChartConfigs == { <<AppTest>>, <<RawApp("test", "longTable", "timestampMs",
                                        "event_date", "u1")>> }

InitChart ==
    /\ applicationsJson = <<AppTest>>
    /\ enable = TRUE
    /\ url = "u1"
    /\ InitCommon
    /\ store \in { [NoStore EXCEPT !.groups = g, !.dateRange = r] :
                      g \in GroupKeyLists, r \in DateRanges }
    /\ view = NoView
    /\ aIGatewayLogs = {}
    /\ pager = NoPager
    /\ InitNoGateway

NextChart ==
    \/ Render
    \/ \E range \in DateRanges : SetCurrentDateRange(range)
    \/ \E unit \in DOMAIN MYSQL_DATE_FORMATS : SetCurrentDateUnit(unit)
    \/ \E apps \in ChartConfigs, table \in Tables :
          QuerySettledWarehouse(ParseApplications(apps), table)
    \/ \E data \in SeriesLists : QuerySettled(data)

SpecChart == InitChart /\ [][NextChart]_vars

(* Paging through the logs of gateway g1 from no cursor, with limit 1, 7   *)
(* or the table size, optionally narrowed to one log id                    *)
InitLogs ==
    /\ applicationsJson = <<>>
    /\ enable = TRUE
    /\ url = "u1"
    /\ InitCommon
    /\ store = NoStore
    /\ view = NoView
    /\ \E n \in 0 .. MaxRows, mixed \in BOOLEAN :
          /\ aIGatewayLogs = LogTable(n, mixed)
          /\ \E limit \in {1, 7, n} \ {0}, logId \in {0, 2} :
                pager = Pager(LogsInput("w1", "g1", 0, limit, logId), <<>>, 0, FALSE)
    /\ InitNoGateway

NextLogs == FetchNextPage

SpecLogs == InitLogs /\ [][NextLogs]_vars

(* The AI-gateway mutations over a table whose rows may be cached *)
InitGateway ==
    /\ applicationsJson = <<>>
    /\ enable = TRUE
    /\ url = "u1"
    /\ InitCommon
    /\ store = NoStore
    /\ view = NoView
    /\ aIGatewayLogs = {}
    /\ pager = NoPager
    /\ aIGateway \in GatewayTables
    /\ gatewayInfoCache \in
          SUBSET {CacheEntry(r.workspaceId, r.id, r.name) : r \in aIGateway}
    /\ mutation = NoMutation

NextGateway ==
    \/ \E input \in CreateInputs : MutationCalled("create", input)
    \/ \E input \in UpdateInputs : MutationCalled("update", input)
    \/ \E input \in DeleteInputs : MutationCalled("delete", input)
    \/ WriteSucceeds
    \/ WriteFails
    \/ MutationResumes

SpecGateway == InitGateway /\ [][NextGateway]_vars

(* The database answers every write, and the event loop resumes a handler  *)
(* whose await has resolved                                                *)
SpecGatewayFair ==
    /\ SpecGateway
    /\ WF_vars(WriteSucceeds \/ WriteFails)
    /\ WF_vars(MutationResumes)

----------------------------------------------------------------------------
(* Properties *)

PoolsFor(u) == {i \in DOMAIN pools : pools[i] = u}

(* C1: at most one connection pool is ever created per distinct connection *)
(* string, also across separate insightsWarehouse calls.                   *)
C1_OnePoolPerConnectionString ==
    \A u \in Urls \cup {url} : Cardinality(PoolsFor(u)) <= 1

(* C2: with a valid configuration the application list is parsed exactly   *)
(* once over any sequence of getWarehouseApplications calls, and every     *)
(* call returns that same parsed list, also when the list is empty.        *)
C2_ParsedOnce ==
    /\ parseCount <= 1
    /\ Cardinality(returned) <= 1
    /\ returned # {} =>
          /\ parseCount = 1
          /\ ~applications.isNull
          /\ returned = {applications.value}

(* Two callers, one per builder, were served from the cached empty list,   *)
(* parsed once, while the configured list is by now a non-empty one.       *)
C2_Witness ==
    /\ parseCount = 1
    /\ ~applications.isNull /\ applications.value = <<>>
    /\ applicationsJson # <<>>
    /\ \A r \in Requests : req[r].pc = "failed"
    /\ \E r \in Requests : req[r].kind = "long"
    /\ \E r \in Requests : req[r].kind = "wide"

(* C3: concurrent first accesses to the application-list cache or to the   *)
(* pool registry end with a single winner: one parse, one pool per key,    *)
(* and every caller observes the same cached value.                        *)
C3_SingleWinner ==
    /\ parseCount <= 1
    /\ Cardinality(returned) <= 1
    /\ \A r1, r2 \in Requests :
          /\ req[r1].pc = "waiting" /\ req[r2].pc = "waiting"
          /\ pools[req[r1].connection] = pools[req[r2].connection]
          => req[r1].connection = req[r2].connection

CompileErrors ==
    {UnsupportedOperator, InvalidDateUnit, ApplicationNotFound,
     ApplicationConfigInvalid}

(* C4: in every request a compilation error raised by build() prevents any *)
(* statement from being sent: a statement is sent only after build() has   *)
(* returned without error, and a request whose build threw has failed with *)
(* that error and has sent nothing.                                        *)
C4_CompileErrorSendsNothing ==
    \A r \in Requests :
        /\ req[r].sends > 0 => req[r].buildErr = ""
        /\ req[r].buildErr # "" =>
              /\ req[r].buildErr \in CompileErrors
              /\ req[r].pc = "failed"
              /\ req[r].sends = 0
              /\ req[r].connection = 0
              /\ req[r].error = req[r].buildErr

(* One request failed on an unsupported operator and sent nothing while    *)
(* another request's statement is in flight.                               *)
C4_Witness ==
    \E r1, r2 \in Requests :
        /\ req[r1].buildErr = UnsupportedOperator
        /\ req[r1].pc = "failed" /\ req[r1].sends = 0
        /\ req[r2].pc = "waiting" /\ req[r2].sends = 1

(* The applications of the cached list that the wide-table lookup accepts *)
WideMatches(id) ==
    {i \in DOMAIN applications.value :
        /\ applications.value[i].name = id
        /\ applications.value[i].type = "wideTable"}

FirstOf(S) == CHOOSE i \in S : \A j \in S : i <= j

BuiltOk == built.kind # "none" /\ built.out.err = ""

(* C5: for every time unit outside minute, hour, day, month, year the date *)
(* bucket expression fails with an invalid-time-unit error in both         *)
(* builders, whether or not the date-based optimization is engaged.        *)
C5_InvalidUnitFails ==
    /\ built.kind # "none"
    /\ built.application.err = ""
    /\ built.query.time.unit \notin DOMAIN MYSQL_DATE_FORMATS
    => built.dateErr = InvalidDateUnit

(* C6: resolution matches name and declared sub-type: the long-table       *)
(* builder never resolves to a wideTable application and the wide-table    *)
(* builder never resolves to a longTable one.                              *)
C6_SubTypeMatch ==
    /\ built.kind = "long" /\ built.application.err = ""
          => built.application.val.type # "wideTable"
    /\ built.kind = "wide" /\ built.application.err = ""
          => built.application.val.type # "longTable"

(* C7: the wide-table builder raises application-not-found whenever the    *)
(* insight identifier matches no configured wideTable application, and     *)
(* otherwise returns the first configured wideTable application of that    *)
(* name; insightsWideTableWarehouseEvents resolves the same way.           *)
C7_WideNotFound ==
    /\ built.kind = "wide" =>
          IF WideMatches(built.query.insightId) = {}
          THEN /\ built.application.err = ApplicationNotFound
               /\ built.out.err = ApplicationNotFound
          ELSE /\ built.application.err = ""
               /\ built.application.val =
                    applications.value[FirstOf(WideMatches(built.query.insightId))]
    /\ lookup # NoLookup =>
          IF WideMatches(lookup.id) = {}
          THEN lookup.err # ""
          ELSE /\ lookup.err = ""
               /\ lookup.val = applications.value[FirstOf(WideMatches(lookup.id))]

(* The wide-table builder refused an identifier that only a long-table     *)
(* application carries.                                                    *)
C7_Witness ==
    /\ built.kind = "wide"
    /\ built.application.err = ApplicationNotFound
    /\ \E i \in DOMAIN applications.value :
          /\ applications.value[i].name = built.query.insightId
          /\ applications.value[i].type = "longTable"

OnlyAllEvents == <<Metric(AllEvent, "events")>>

(* C8: a metric list holding only $all_event with math=events compiles a   *)
(* WHERE clause whose event-name disjunction is unconditionally true: no   *)
(* row is excluded by its event name.                                      *)
C8_AllEventSelectsEveryName ==
    BuiltOk /\ built.query.metrics = OnlyAllEvents =>
        \A row \in Rows :
            /\ built.kind = "long" =>
                  EvalPred(built.out.where[2], row, built.application.val)
            /\ \A e \in EventNames :
                  Selects(built.out.where, row, built.application.val)
                  = Selects(built.out.where, [row EXCEPT !.eventName = e],
                            built.application.val)

(* The long-table builder compiled the sentinel-only query and its WHERE   *)
(* selects rows of several event names while rejecting rows out of range.  *)
C8_Witness ==
    /\ BuiltOk /\ built.kind = "long" /\ built.query.metrics = OnlyAllEvents
    /\ \E r1, r2 \in Rows :
          /\ r1.eventName # r2.eventName
          /\ Selects(built.out.where, r1, built.application.val)
          /\ Selects(built.out.where, r2, built.application.val)
    /\ \E r3 \in Rows : ~Selects(built.out.where, r3, built.application.val)

(* What the request asks of a row, read off the query itself *)
InTimeRange(q, row, app, kind) ==
    EvalPred(IF kind = "long" THEN Long_buildOptimizedDateRangeQuery(app, q)
             ELSE Wide_buildOptimizedDateRangeQuery(app, q), row, app)

MatchesSomeMetric(q, row) ==
    \E i \in DOMAIN q.metrics :
        q.metrics[i].name = AllEvent \/ q.metrics[i].name = row.eventName

FilterHolds(f, row) ==
    CASE f.operator = "equals"       -> row.p = f.value
      [] f.operator = "not equals"   -> row.p # f.value
      [] f.operator = "greater than" -> row.p > f.value
      [] f.operator = "less than"    -> row.p < f.value
      [] OTHER -> FALSE

SupportedOperators == {"equals", "not equals", "greater than", "less than"}

(* C9: in every builder variant the WHERE clause is the conjunction of the *)
(* time-range predicate, the metric event-name disjunction and every       *)
(* top-level filter: a row is selected iff it satisfies all three parts.   *)
C9_WhereIsFullConjunction ==
    /\ BuiltOk
    /\ \A i \in DOMAIN built.query.filters :
          built.query.filters[i].operator \in SupportedOperators
    => \A row \in Rows :
          Selects(built.out.where, row, built.application.val)
          <=> /\ InTimeRange(built.query, row, built.application.val, built.kind)
              /\ MatchesSomeMetric(built.query, row)
              /\ \A i \in DOMAIN built.query.filters :
                    FilterHolds(built.query.filters[i], row)

(* C10: the select clause holds one aggregate expression per requested     *)
(* metric, for math=events and math=sessions, in every builder variant.    *)
C10_OneAggregatePerMetric ==
    BuiltOk =>
        /\ Len(built.out.select) = Len(built.query.metrics)
        /\ \A i \in DOMAIN built.query.metrics :
              /\ built.out.select[i] # NullSql
              /\ built.out.select[i].alias = built.query.metrics[i].name

(* The same application without its date-only column: the builders then    *)
(* take the raw creation-timestamp path for every window                   *)
RawPathApp(app) == [app EXCEPT !.dateBasedCreatedAtField = Undefined]

RawPathBuild(kind, app, q) ==
    IF kind = "long" THEN Long_build(<<RawPathApp(app)>>, q)
    ELSE Wide_build(<<RawPathApp(app)>>, q)

OptimizationEngaged ==
    /\ BuiltOk
    /\ built.application.val.dateBasedCreatedAtField # Undefined
    /\ DayDiff(built.query.time.endAt, built.query.time.startAt) >= 1

(* C11: for a schema with a date-only column and a 2-day window at day     *)
(* granularity, the date-based path and the raw creation-timestamp path    *)
(* give every table the same buckets and counts: each row is selected by   *)
(* both statements or by neither, and falls in the same bucket.            *)
C11_OptimizationEquivalence ==
    /\ OptimizationEngaged
    /\ built.query.time.unit = "day"
    /\ DayDiff(built.query.time.endAt, built.query.time.startAt) = 2
    => \A row \in Rows :
          LET app == built.application.val
              raw == RawPathBuild(built.kind, app, built.query)
          IN  /\ Selects(built.out.where, row, app)
                    <=> Selects(raw.where, row, RawPathApp(app))
              /\ BucketOf(built.out.date, row, app)
                    = BucketOf(raw.date, row, RawPathApp(app))

(* C12: with the warehouse disabled or no URL configured, executing a      *)
(* query fails with the backend-unavailable error before any pool is       *)
(* created and before any statement is sent.                               *)
C12_DisabledFailsBeforePool ==
    ~enable \/ url = "" =>
        /\ \A r \in Requests :
              req[r].kind = "long" =>
                  /\ req[r].pc = "failed"
                  /\ req[r].sends = 0
                  /\ req[r].connection = 0
                  /\ req[r].buildErr = "" => req[r].error = WarehouseNotEnabled
        /\ \A i \in DOMAIN pools : \E u \in Urls : registry[u] = i

(* The warehouse is enabled without a URL; a long-table request compiled   *)
(* its statement and failed on the connection lookup, with no pool made.   *)
C12_Witness ==
    /\ enable /\ url = ""
    /\ pools = <<>>
    /\ \E r \in Requests :
          /\ req[r].kind = "long" /\ req[r].pc = "failed"
          /\ req[r].buildErr = "" /\ req[r].error = WarehouseNotEnabled

(* C13: a request sends its statement at most once; when the single send   *)
(* fails the request ends failed with no further send and no result, and a *)
(* finished request never sends again.                                     *)
C13_NoRetry ==
    [][\A r \in Requests :
          /\ req[r].sends <= req'[r].sends /\ req'[r].sends <= 1
          /\ req[r].pc = "waiting" /\ req'[r].pc = "failed" =>
                /\ req'[r].sends = req[r].sends
                /\ req'[r].error # ""
          /\ req[r].pc \in {"failed", "done"} => req'[r] = req[r]]_vars

(* A statement was sent once and its rejection ended the request. *)
C13_Witness ==
    \E r \in Requests :
        /\ req[r].pc = "failed" /\ req[r].sends = 1
        /\ req[r].error = "Statement execution failed"

(* C14: a malformed configuration raises its error at the first            *)
(* getWarehouseApplications call and not before; the failed call leaves    *)
(* the cache unpopulated, caches and returns no list, and a later call     *)
(* parses again.                                                           *)
C14_MalformedConfigNotCached ==
    [][\A r \in Requests :
          req[r].pc = "idle" /\ req'[r].pc # "idle" /\ applications.isNull =>
              IF \A i \in DOMAIN applicationsJson :
                     SchemaAccepts(applicationsJson[i])
              THEN /\ ~applications'.isNull
                   /\ applications'.value = ParseApplications(applicationsJson)
                   /\ parseCount' = parseCount + 1
                   /\ req'[r].error # ApplicationConfigInvalid
              ELSE /\ applications' = NullApplications
                   /\ returned' = returned
                   /\ parseCount' = parseCount
                   /\ req'[r].pc = "failed"
                   /\ req'[r].error = ApplicationConfigInvalid
                   /\ req'[r].sends = 0]_vars

(* One request failed on the malformed configuration; after the            *)
(* configuration was replaced a later request parsed it and sent its       *)
(* statement.                                                              *)
C14_Witness ==
    \E r1, r2 \in Requests :
        /\ req[r1].pc = "failed" /\ req[r1].error = ApplicationConfigInvalid
        /\ req[r2].sends = 1
        /\ parseCount = 1 /\ ~applications.isNull

(* The (groupValue, operator, literal) tuple behind each group column of   *)
(* a request, in column order; a plain group has no operator and literal   *)
NoLiteral == List(<<>>)
GroupTuple(value, operator, literal) ==
    [value |-> value, operator |-> operator, literal |-> literal]
GroupTuples(q) ==
    Flatten([i \in DOMAIN q.groups |->
        IF ~q.groups[i].hasCustomGroups
        THEN <<GroupTuple(q.groups[i].value, "", NoLiteral)>>
        ELSE [j \in DOMAIN q.groups[i].customGroups |->
                GroupTuple(q.groups[i].value,
                           q.groups[i].customGroups[j].filterOperator,
                           q.groups[i].customGroups[j].filterValue)]])

(* C15: the alias of a group column decodes back to exactly its            *)
(* (groupValue, operator, literal) tuple, so two columns of different      *)
(* tuples never carry the same alias, also when the literal is a list or   *)
(* holds the delimiter (group values here hold neither '%' nor '|').       *)
C15_AliasRoundTrip ==
    BuiltOk =>
        /\ Len(built.out.group) = Len(GroupTuples(built.query))
        /\ \A i, j \in DOMAIN built.out.group :
              GroupTuples(built.query)[i] # GroupTuples(built.query)[j]
                  => built.out.group[i].alias # built.out.group[j].alias

(* C16: ChartRender never issues a query with unit minute over a range     *)
(* longer than one day, the render right after a range change included.    *)
C16_NoMinuteOverLongRange ==
    view.query.unit = "minute" =>
        view.query.endAt - view.query.startAt <= MsPerDay

(* The ids the caller asked for: its workspace and gateway, and the one    *)
(* log id when it gave one                                                 *)
WantedLogs ==
    {r.id : r \in {r \in aIGatewayLogs :
                     /\ r.workspaceId = pager.input.workspaceId
                     /\ r.gatewayId = pager.input.gatewayId
                     /\ pager.input.logId \in {0, r.id}}}

(* C17: paging from no cursor with each page's nextCursor visits every row *)
(* exactly once, in descending id order, and ends on a page without        *)
(* nextCursor after at most one page more than the rows fill, for limit 1, *)
(* 7 and the table size.                                                   *)
C17_PaginationTerminates ==
    /\ \A i \in DOMAIN pager.visited : pager.visited[i] \in WantedLogs
    /\ \A i, j \in DOMAIN pager.visited :
          i < j => pager.visited[i] > pager.visited[j]
    /\ pager.pages <= Cardinality(WantedLogs) \div pager.input.limit + 1
    /\ pager.done =>
          /\ {pager.visited[i] : i \in DOMAIN pager.visited} = WantedLogs
          /\ pager.input.cursor = 0
    /\ ~pager.done =>
          pager.pages * pager.input.limit = Len(pager.visited)

(* A table of more than seven rows was paged to its end with limit 7: a    *)
(* full page, then a short one without nextCursor.                         *)
C17_Witness ==
    /\ pager.done /\ pager.input.limit = 7
    /\ pager.pages = 2
    /\ Len(pager.visited) > 7

(* The request and the statement behind the warehouse result on display *)
ShownQuery == ChartQuery(view.query)
ShownBuild == Long_build(view.source.apps, ShownQuery)
ShownApp == Long_getApplication(view.source.apps, ShownQuery).val

(* The rows of the table that the statement selects into bucket `date` *)
RowsInBucket(date) ==
    {i \in DOMAIN view.source.table :
        /\ Selects(ShownBuild.where, view.source.table[i], ShownApp)
        /\ BucketOf(ShownBuild.date, view.source.table[i], ShownApp) = date}

(* Number of buckets the window [startAt, endAt] spans at its unit *)
BucketCount(time) ==
    CASE time.unit = "day" -> FormatDay(time.endAt) - FormatDay(time.startAt) + 1
      [] time.unit \in {"minute", "hour"} ->
            Unix(time.endAt) - Unix(time.startAt) + 1
      [] OTHER -> 1

RowsInside ==
    {i \in DOMAIN view.source.table :
        /\ view.query.startAt <= view.source.table[i].t
        /\ view.source.table[i].t <= view.query.endAt}

(* C19: the query {metrics: [$all_event / events], window from 00:00 of    *)
(* one day to 00:00 of the next, unit day, UTC} over a table with 5 rows   *)
(* inside the window and 2 outside yields exactly one series, named        *)
(* $all_event, whose single point is that first day with value 5.          *)
C19_EndToEndScenario ==
    /\ view.source.kind = "warehouse"
    /\ view.query = Time(0, MsPerDay, "day")
    /\ Cardinality(RowsInside) = 5
    /\ Len(view.source.table) = 7
    => view.data = <<Series(AllEvent, <<>>, <<Point(0, 5)>>)>>

(* The name the claim gives a series: the metric name, then for each       *)
(* group in declared order a '-' and the series' value of that group       *)
RECURSIVE ComposedName(_, _, _)
ComposedName(name, item, groups) ==
    IF groups = <<>> THEN name
    ELSE ComposedName(name \o "-" \o item.dims[Head(groups)], item, Tail(groups))

(* C20: the key of every series in the chart rows is the metric name       *)
(* followed, when the request has groups, by '-' and the group values      *)
(* joined by '-' in the order the groups were declared.                    *)
C20_SeriesNameComposition ==
    \A n \in DOMAIN view.chartData :
        DOMAIN view.chartData[n].values =
            {ComposedName(view.data[i].name, view.data[i], store.groups) :
                i \in DOMAIN view.data}

(* Rows are on display for two groups declared as g2, g1, with three       *)
(* differently named series.                                               *)
C20_Witness ==
    /\ store.groups = <<"g2", "g1">>
    /\ Len(view.chartData) > 0
    /\ DOMAIN view.chartData[1].values = {"m1-c-a", "m1-c-b", "m2-d-a"}

(* C21: in every build the range predicate reads the date-only column      *)
(* exactly when the schema declares one and the window spans at least one  *)
(* whole day, and the bucket expression reads the date-only column exactly *)
(* when the range predicate does: never one on each column.                *)
C21_OptimizationColumnsAgree ==
    BuiltOk =>
        LET app == built.application.val
            engaged == /\ app.dateBasedCreatedAtField # Undefined
                       /\ DayDiff(built.query.time.endAt,
                                  built.query.time.startAt) >= 1
        IN  /\ built.out.where[1].col \in {"dateBased", "createdAt"}
            /\ built.out.date.col \in {"dateBased", "createdAt"}
            /\ built.out.where[1].col = "dateBased" <=> engaged
            /\ built.out.date.col = built.out.where[1].col

(* The wide-table builder has built a statement over a window of one whole *)
(* day for a schema with a date-only column: both fragments read it.       *)
C21_Witness ==
    /\ BuiltOk
    /\ built.kind = "wide"
    /\ built.application.val.dateBasedCreatedAtField # Undefined
    /\ DayDiff(built.query.time.endAt, built.query.time.startAt) = 1
    /\ built.out.where[1].col = "dateBased"
    /\ built.out.date.col = "dateBased"

(* C22: a minute query that ChartRender permits (whole-day difference of   *)
(* its range at most 1) is never bucketed from the date-only column: the   *)
(* statement built for it does not take the date-based path.               *)
C22_MinuteNeverOptimized ==
    /\ view.source.kind = "warehouse"
    /\ ~view.fetching
    /\ view.query.unit = "minute"
    /\ DayDiff(view.query.endAt, view.query.startAt) <= 1
    /\ ShownBuild.err = ""
    => /\ ~Long_enableDateBasedOptimizedEventTable(ShownApp, ShownQuery)
       /\ ShownBuild.date.col # "dateBased"

(* The number of columns the claim gives a list of groups: one for a group *)
(* without custom-group entries, else one per entry                        *)
RECURSIVE GroupColumnCount(_)
GroupColumnCount(groups) ==
    IF groups = <<>> THEN 0
    ELSE (IF Head(groups).customGroups = <<>> THEN 1
          ELSE Len(Head(groups).customGroups))
         + GroupColumnCount(Tail(groups))

(* C23: the statement has one group column for each group without custom   *)
(* groups and one per custom-group entry otherwise; a group whose          *)
(* customGroups list is empty still has its one raw-value column.          *)
C23_GroupColumnCount ==
    BuiltOk => Len(built.out.group) = GroupColumnCount(built.query.groups)

(* The characters the alias convention reserves, and the quote characters *)
ReservedCharacters == {"%", "|", "\"", "'"}
HasReserved(s) ==
    \E i \in 1 .. Len(s) : SubSeq(s, i, i) \in ReservedCharacters
IsSubstring(u, s) ==
    \E i \in 1 .. (Len(s) - Len(u) + 1) : SubSeq(s, i, i + Len(u) - 1) = u

(* The names a caller supplies in a query *)
UserNames(q) ==
    {q.metrics[i].name : i \in DOMAIN q.metrics}
        \cup {q.filters[i].name : i \in DOMAIN q.filters}
        \cup {q.groups[i].value : i \in DOMAIN q.groups}

(* The identifiers and aliases of a built statement *)
Identifiers(out) ==
    {out.select[i].alias : i \in {i \in DOMAIN out.select : out.select[i] # NullSql}}
        \cup {out.select[i].arg : i \in {i \in DOMAIN out.select : out.select[i] # NullSql}}
        \cup {out.group[i].alias : i \in DOMAIN out.group}
        \cup {out.where[i].col :
                i \in {i \in DOMAIN out.where : out.where[i].op \notin {"true", "or"}}}

(* C24: no identifier or alias of a built statement holds, verbatim, a     *)
(* caller-supplied metric name, filter name or group value that contains   *)
(* '%', '|' or a quote character: such a name is escaped or the build is   *)
(* rejected.                                                               *)
C24_ReservedCharactersEscaped ==
    BuiltOk =>
        \A u \in UserNames(built.query) :
            HasReserved(u) =>
                \A s \in Identifiers(built.out) : ~IsSubstring(u, s)

(* The value columns of the parameters table of an application *)
ParametersColumns(app) ==
    {app.paramsValueField, app.paramsValueNumberField,
     app.paramsValueStringField, app.paramsValueDateField} \ {Undefined}

(* The column the claim gives a declared type *)
TypedColumn(app, type) ==
    CASE type = "number" -> app.paramsValueNumberField
      [] type = "string" -> app.paramsValueStringField
      [] type = "date"   -> app.paramsValueDateField
      [] OTHER           -> Undefined

(* C25: the long-table builder reads, for a group of type number, string   *)
(* or date, the typed parameter column when the schema configures it and   *)
(* the generic value column otherwise, and the generic value column for    *)
(* every other type; the column is always one of the parameters table.     *)
C25_ValueFieldSelection ==
    /\ BuiltOk
    /\ built.kind = "long"
    /\ \A i \in DOMAIN built.query.groups :
          ~built.query.groups[i].hasCustomGroups
    => \A i \in DOMAIN built.out.group :
          LET app == built.application.val
              typed == TypedColumn(app, built.query.groups[i].type)
          IN  /\ built.out.group[i].expr.op = "column"
              /\ built.out.group[i].expr.col =
                    (IF typed # Undefined THEN typed ELSE app.paramsValueField)
              /\ built.out.group[i].expr.col \in ParametersColumns(app)

(* A statement over groups of type number, string, date and boolean for a  *)
(* schema that configures the string and date columns only.                *)
C25_Witness ==
    /\ BuiltOk
    /\ built.kind = "long"
    /\ Len(built.out.group) = 4
    /\ built.application.val.paramsValueNumberField = Undefined
    /\ built.out.group[1].expr.col = "event_param_value"
    /\ built.out.group[2].expr.col = "event_param_string"
    /\ built.out.group[3].expr.col = "event_param_date"
    /\ built.out.group[4].expr.col = "event_param_value"

(* C26: the events listing constructs exactly one builder per request: the *)
(* wide-table builder if and only if the resolved application is of type   *)
(* wideTable, the long-table builder in every other case, also when no     *)
(* application is resolved; the dispatch itself raises no error.           *)
C26_ListingDispatch ==
    dispatch.called =>
        /\ dispatch.error = ""
        /\ Cardinality(dispatch.builders) = 1
        /\ dispatch.builders = {"wide"}
              <=> (/\ ~dispatch.application.isNull
                   /\ dispatch.application.value.type = "wideTable")
        /\ dispatch.builders # {"wide"} => dispatch.builders = {"long"}

(* A listing was requested for an insight id that resolves to no           *)
(* application, and the long-table builder took it.                        *)
C26_Witness ==
    /\ dispatch.called
    /\ dispatch.application.isNull
    /\ dispatch.builders = {"long"}

(* C27: the text executeQuery hands to the driver has no double quote: it  *)
(* is the statement's text with each double quote replaced by a backtick   *)
(* and every other character unchanged, in place; the bound values are     *)
(* the statement's values, unchanged and in the same order.                *)
C27_DialectTranslation ==
    wire.called /\ wire.error = "" =>
        /\ \A i \in DOMAIN wire.text : wire.text[i] # DoubleQuote
        /\ DOMAIN wire.text = DOMAIN wire.sql.sql
        /\ \A i \in DOMAIN wire.text :
              wire.text[i] = (IF wire.sql.sql[i] = DoubleQuote THEN Backtick
                              ELSE wire.sql.sql[i])
        /\ wire.values = wire.sql.values

(* A statement with two double quotes and two bound values, one of them a  *)
(* text with a double quote of its own, has gone to the driver.            *)
C27_Witness ==
    /\ wire.called
    /\ wire.error = ""
    /\ wire.sql.sql = <<DoubleQuote, "a", DoubleQuote>>
    /\ wire.text = <<Backtick, "a", Backtick>>
    /\ wire.values = <<Str("a\"b"), Num(1)>>

(* C28: once the application-list cache holds a list, no step replaces or  *)
(* clears it: neither a change of the configuration nor a handler; every   *)
(* later lookup is served the cached list.                                 *)
C28_CacheNeverReplaced ==
    [][~applications.isNull =>
          /\ applications' = applications
          /\ returned' \subseteq returned \cup {applications.value}]_vars

(* The list of the test's configuration is cached, the configuration was   *)
(* changed to another list afterwards, and a later request for an entry of *)
(* the new list was not found.                                             *)
C28_Witness ==
    /\ ~applications.isNull
    /\ applications.value = ParseApplications(<<AppTest>>)
    /\ applicationsJson = <<AppLongA, AppWideA, AppWideB>>
    /\ \E r1, r2 \in Requests :
          /\ req[r1].sends = 1
          /\ req[r2].pc = "failed" /\ req[r2].error = ApplicationNotFound

(* The group-value combination of a series: its value of each group of     *)
(* the request, in declared order                                          *)
Combination(item, groups) == [i \in DOMAIN groups |-> Get(item, groups[i])]

(* C29: for the series of a request with groups g1, g2, two series that    *)
(* differ in metric or in group-value combination never compose the same   *)
(* chart key, so each row holds one value per series; the rows are one per *)
(* date of the first series, in that order.                                *)
C29_ChartKeysCollisionFree ==
    /\ Len(view.chartData) > 0
    /\ store.groups = <<"g1", "g2">>
    => /\ \A i, j \in DOMAIN view.data :
             \/ view.data[i].name # view.data[j].name
             \/ Combination(view.data[i], store.groups)
                   # Combination(view.data[j], store.groups)
             => SeriesName(view.data[i], store.groups)
                   # SeriesName(view.data[j], store.groups)
       /\ \A n \in DOMAIN view.chartData :
             Cardinality(DOMAIN view.chartData[n].values)
                = Cardinality({<<view.data[i].name,
                                 Combination(view.data[i], store.groups)>> :
                                  i \in DOMAIN view.data})
       /\ [n \in DOMAIN view.chartData |-> view.chartData[n].date]
             = FirstDates(view.data)

(* C30: a step changes the gateway-info cache only by clearing the key of  *)
(* an update or delete whose write is already in the table, and the step   *)
(* that completes such a mutation leaves the key uncached; a rejected      *)
(* write leaves cache and table as they were and the mutation fails with   *)
(* the error; create never changes the cache; and every update or delete   *)
(* whose write has succeeded goes on to clear the key.                     *)
C30_CacheClearedAfterWrite ==
    /\ [][/\ gatewayInfoCache' # gatewayInfoCache =>
                /\ mutation.pc = "written" /\ mutation'.pc = "done"
                /\ mutation.kind \in {"update", "delete"}
                /\ gatewayInfoCache' =
                      {e \in gatewayInfoCache :
                          ~(/\ e.workspaceId = mutation.input.workspaceId
                            /\ e.gatewayId = mutation.input.gatewayId)}
          /\ (/\ mutation.pc = "written" /\ mutation'.pc = "done"
              /\ mutation.kind \in {"update", "delete"}) =>
                ~IsCached(gatewayInfoCache', mutation.input.workspaceId,
                          mutation.input.gatewayId)
          /\ mutation.pc = "writing" /\ mutation'.pc = "failed" =>
                /\ mutation'.error # ""
                /\ UNCHANGED <<gatewayInfoCache, aIGateway>>
          /\ mutation'.pc = "done" => mutation.pc = "written"]_vars
    /\ (mutation.pc = "written" /\ mutation.kind \in {"update", "delete"})
          ~> (/\ mutation.pc = "done"
              /\ ~IsCached(gatewayInfoCache, mutation.input.workspaceId,
                           mutation.input.gatewayId))

(* An update of a gateway whose info was cached has returned: the table    *)
(* holds the new name and the cache no longer holds the key.               *)
C30_Witness ==
    /\ mutation.pc = "done"
    /\ mutation.kind = "update"
    /\ mutation.cached
    /\ GatewayRow("g1", "w1", "n2") \in aIGateway
    /\ ~IsCached(gatewayInfoCache, "w1", "g1")

====
